---------------------------- MODULE Spec2Model ----------------------------
(***************************************************************************)
(* Model of the dynamic power limiter of OpenDTU (src/src/PowerLimiter.cpp *)
(* with src/include/PowerLimiter.h).                                       *)
(*                                                                         *)
(* Units.  Power is in watts, except the power meter's total, a float in   *)
(* the code, which is carried in tenths of a watt so that round() has      *)
(* something to do.  Voltages are in millivolts and the load correction    *)
(* factor in millivolts per watt.  The inverter efficiency is in percent.  *)
(* _mpptDirectFeedToGridPercent, a float moved in steps of 0.01 between    *)
(* 0.0 and 0.9, is carried in hundredths (0 .. 90).  Timestamps are        *)
(* uint32_t milliseconds, compared through elapsedLessThan.  The           *)
(* configuration's power limits, target and hysteresis    *)
(* are signed 32 bit integers, compared as signed integers.                *)
(***************************************************************************)
EXTENDS Integers, Sequences, FiniteSets, TLC

VARIABLES
    config,                     \* CONFIG_T, the fields PowerLimiter.cpp reads
    plState,                    \* _plState
    batteryDischargeEnabled,    \* _batteryDischargeEnabled
    lastRequestedPowerLimit,    \* _lastRequestedPowerLimit
    mpptDirectFeedToGridPercent,\* _mpptDirectFeedToGridPercent, in hundredths
    lastCommandSent,            \* _lastCommandSent
    lastLoop,                   \* _lastLoop
    producing,                  \* inverter->isProducing()
    inverterLimit,              \* the limit in effect at the inverter: the last one transmitted
    calcReturned,               \* <<>> or <<v>>: what the last call of calcPowerLimit returned
    socLatched,                 \* discharge is off since a tick at which the SoC stop threshold was reached
    ticks,                      \* calls of loop() that passed the initial checks
    tk,                         \* what the last call of loop() read, computed and sent
    guard,                      \* the members of BatteryGuardClass
    gk,                         \* what the calls of updateBatteryValues were given and did
    meter,                      \* the members of PowerMeterClass
    mk                          \* millis() of the last call that read or wrote them, and what it did

vars == <<config, plState, batteryDischargeEnabled, lastRequestedPowerLimit,
          mpptDirectFeedToGridPercent, lastCommandSent, lastLoop, producing,
          inverterLimit, calcReturned, socLatched, ticks, tk, guard, gk, meter, mk>>

-----------------------------------------------------------------------------
(* Bounds and input sets *)

MaxTicks == 3

\* calls of BatteryGuardClass::updateBatteryValues
MaxCalls == 6

\* calls of the power meter and of calcPowerLimit in one behaviour
MaxEvents == 4

\* milliseconds between the last tick that passed the initial checks (or boot)
\* and a reading of millis() in loop(), with PowerLimiter_Interval = 10
Elapsed == {9999, 10000}

\* millis() - inverter->Statistics()->getLastUpdate()
StatsAges == {10000, 10001}

BaseConfig ==
    [ PowerMeter_Enabled |-> TRUE,
      PowerMeter_Source |-> 0,
      PowerMeter_Interval |-> 10,
      PowerLimiter_Enabled |-> TRUE,
      PowerLimiter_Interval |-> 10,
      PowerLimiter_SolarPassThroughEnabled |-> TRUE,
      Vedirect_Enabled |-> TRUE,
      PowerLimiter_BatteryDrainStategy |-> "EMPTY_WHEN_FULL",
      PowerLimiter_IsInverterBehindPowerMeter |-> FALSE,
      PowerLimiter_TargetPowerConsumption |-> 20,
      PowerLimiter_TargetPowerConsumptionHysteresis |-> 10,
      PowerLimiter_LowerPowerLimit |-> 50,
      PowerLimiter_UpperPowerLimit |-> 150,
      Battery_Enabled |-> TRUE,
      PowerLimiter_BatterySocStartThreshold |-> 90,
      PowerLimiter_BatterySocStopThreshold |-> 20,
      PowerLimiter_VoltageStartThreshold |-> 28000,
      PowerLimiter_VoltageStopThreshold |-> 24000,
      PowerLimiter_VoltageLoadCorrectionFactor |-> 1 ]

\* The readings a tick takes are drawn from a record of sets:
\*   Loads             PowerMeter.getPowerTotal(), in tenths of a watt
\*   MeterAges         millis() - PowerMeter.getLastPowerMeterUpdate()
\*   PPVs, CSs         VeDirect.veFrame.PPV and VeDirect.veFrame.CS
\*   Efficiencies      FLD_EFF of the inverter, in percent (0 while it is off)
\*   BatteryReadings   Battery.stateOfCharge and
\*                     millis() - Battery.stateOfChargeLastUpdate
\*   InverterReadings  FLD_UDC in millivolts and FLD_PAC in watts
\*   Inverters         what getInverterByPos() and isReachable() give

\* readings that exercise the power computation and the commands
LimitReadings ==
    [ Loads |-> {-4000, 95, 1200, 9000},
      MeterAges |-> {30000, 30001},
      PPVs |-> {19, 100, 8000},
      CSs |-> {4},
      Efficiencies |-> {95},
      BatteryReadings |-> { [soc |-> 20, age |-> 59999], [soc |-> 90, age |-> 59999] },
      InverterReadings |-> { [udc |-> 26000, pac |-> 0] },
      Inverters |-> {"nullptr", "unreachable", "reachable"} ]

LimitConfigs ==
    { BaseConfig,
      [BaseConfig EXCEPT !.PowerLimiter_IsInverterBehindPowerMeter = TRUE],
      [BaseConfig EXCEPT !.PowerMeter_Enabled = FALSE] }

\* readings that exercise the start and stop thresholds
DischargeReadings ==
    [ Loads |-> {1200},
      MeterAges |-> {30000},
      PPVs |-> {19, 20},
      CSs |-> {3},
      Efficiencies |-> {0, 95},
      BatteryReadings |-> { [soc |-> 20, age |-> 59999], [soc |-> 50, age |-> 59999],
                            [soc |-> 90, age |-> 59999], [soc |-> 20, age |-> 60000] },
      InverterReadings |-> { [udc |-> 0, pac |-> 0], [udc |-> 24000, pac |-> 0],
                             [udc |-> 26000, pac |-> 0], [udc |-> 26000, pac |-> 2000] },
      Inverters |-> {"nullptr", "unreachable", "reachable"} ]

\* readings that exercise the shutdown of a disabled limiter and its return
ShutdownReadings ==
    [ Loads |-> {1200},
      MeterAges |-> {30000},
      PPVs |-> {19},
      CSs |-> {3, 4},
      Efficiencies |-> {95},
      BatteryReadings |-> { [soc |-> 20, age |-> 59999], [soc |-> 90, age |-> 59999] },
      InverterReadings |-> { [udc |-> 26000, pac |-> 0] },
      Inverters |-> {"reachable"} ]

ShutdownConfigs ==
    { BaseConfig, [BaseConfig EXCEPT !.PowerLimiter_Enabled = FALSE] }

DischargeConfigs ==
    { BaseConfig,
      [BaseConfig EXCEPT !.PowerLimiter_BatteryDrainStategy = "EMPTY_AT_NIGHT"],
      [BaseConfig EXCEPT !.PowerLimiter_VoltageStartThreshold = 0,
                         !.PowerLimiter_VoltageStopThreshold = 0],
      [BaseConfig EXCEPT !.PowerLimiter_SolarPassThroughEnabled = FALSE,
                         !.Battery_Enabled = FALSE],
      [BaseConfig EXCEPT !.Vedirect_Enabled = FALSE,
                         !.PowerLimiter_BatterySocStartThreshold = 0,
                         !.PowerLimiter_BatterySocStopThreshold = 0] }

-----------------------------------------------------------------------------
(* Arithmetic of the code *)

\* (now - since) < span on uint32_t, for timestamps below 2^31 and a span of at
\* most 2^31: when now < since the difference wraps to 2^32 - (since - now),
\* which is above 2^31 and so never below the span
elapsedLessThan(now, since, span) ==
    IF now >= since THEN now - since < span ELSE FALSE

\* round() of a float given in tenths: halves go away from zero
round(x10) == IF x10 >= 0 THEN (x10 + 5) \div 10 ELSE 0 - ((5 - x10) \div 10)

\* what a tick leaves in tk when it returns before reading anything more
Returned(path) ==
    [ path |-> path, stale |-> FALSE, inBand |-> FALSE, stop |-> FALSE,
      start |-> FALSE, socStop |-> FALSE, socBetween |-> FALSE,
      canUse |-> FALSE, wasLatched |-> FALSE, solarOnly |-> FALSE,
      adjSolar |-> 0, solar100 |-> 0, calc |-> 0, calcBefore |-> <<>>,
      limitBefore |-> 0, plBefore |-> "ACTIVE", mppt |-> 0, cmds |-> <<>>,
      inverter |-> "none", statsAge |-> 0, cs |-> 0, idle |-> << >> ]


-----------------------------------------------------------------------------
(* PowerLimiterClass: the helpers of loop() *)

canUseDirectSolarPower(c, ppv) ==
    IF ~c.PowerLimiter_SolarPassThroughEnabled \/ ~c.Vedirect_Enabled
    THEN FALSE
    ELSE IF ppv < 20 THEN FALSE ELSE TRUE

getDirectSolarPower(c, ppv) ==
    IF ~canUseDirectSolarPower(c, ppv) THEN 0 ELSE ppv

getLoadCorrectedVoltage(c, inv) ==
    IF inv.udc <= 0 THEN 0
    ELSE inv.udc + inv.pac * c.PowerLimiter_VoltageLoadCorrectionFactor

\* the state-of-charge clause of isStartThresholdReached
socStartReached(c, bat) ==
    /\ c.Battery_Enabled
    /\ c.PowerLimiter_BatterySocStartThreshold > 0
    /\ bat.age < 60000
    /\ bat.soc >= c.PowerLimiter_BatterySocStartThreshold

isStartThresholdReached(c, bat, inv) ==
    IF socStartReached(c, bat) THEN TRUE
    ELSE IF c.PowerLimiter_VoltageStartThreshold <= 0 THEN FALSE
    ELSE getLoadCorrectedVoltage(c, inv) >= c.PowerLimiter_VoltageStartThreshold

\* a state-of-charge clause that takes a stale reading too
socStopReached_staleToo(c, bat) ==
    /\ c.Battery_Enabled
    /\ c.PowerLimiter_BatterySocStopThreshold > 0
    /\ bat.soc <= c.PowerLimiter_BatterySocStopThreshold

\* the state-of-charge clause of isStopThresholdReached
socStopReached(c, bat) ==
    /\ c.Battery_Enabled
    /\ c.PowerLimiter_BatterySocStopThreshold > 0
    /\ bat.age < 60000
    /\ bat.soc <= c.PowerLimiter_BatterySocStopThreshold

isStopThresholdReached(c, bat, inv) ==
    IF socStopReached(c, bat) THEN TRUE
    ELSE IF c.PowerLimiter_VoltageStopThreshold <= 0 THEN FALSE
    ELSE getLoadCorrectedVoltage(c, inv) <= c.PowerLimiter_VoltageStopThreshold

\* a fresh SoC reading strictly between the two SoC thresholds
socBetweenThresholds(c, bat) ==
    /\ c.Battery_Enabled
    /\ bat.age < 60000
    /\ c.PowerLimiter_BatterySocStopThreshold > 0
    /\ bat.soc > c.PowerLimiter_BatterySocStopThreshold
    /\ bat.soc < c.PowerLimiter_BatterySocStartThreshold

\* the safety check of calcPowerLimit
powerMeterTooOld(meterAge) == meterAge > 30 * 1000

\* the reuse check of calcPowerLimit
withinTargetHysteresis(c, total) ==
    /\ round(total) >= c.PowerLimiter_TargetPowerConsumption
                         - c.PowerLimiter_TargetPowerConsumptionHysteresis
    /\ round(total) <= c.PowerLimiter_TargetPowerConsumption
                         + c.PowerLimiter_TargetPowerConsumptionHysteresis

\* victronChargePower * (efficency > 0.0 ? (efficency / 100.0) : 1.0), as int32_t
adjustedVictronChargePower(victronChargePower, efficency) ==
    IF efficency > 0 THEN (victronChargePower * efficency) \div 100
    ELSE victronChargePower

\* a computation that never returns less than the lower limit
calcPowerLimit_clampedBelow(c, total, meterAge, last, efficency, ppv, consumeSolarPowerOnly) ==
    LET measured == round(total)
        consumption == IF c.PowerLimiter_IsInverterBehindPowerMeter
                       THEN measured + last ELSE measured
        adjusted == adjustedVictronChargePower(getDirectSolarPower(c, ppv), efficency)
        newPowerLimit == consumption - c.PowerLimiter_TargetPowerConsumption
        upperPowerLimit ==
            IF consumeSolarPowerOnly /\ c.PowerLimiter_UpperPowerLimit > adjusted
            THEN adjusted ELSE c.PowerLimiter_UpperPowerLimit
    IN  IF powerMeterTooOld(meterAge) THEN c.PowerLimiter_LowerPowerLimit
        ELSE IF withinTargetHysteresis(c, total) THEN last
        ELSE IF newPowerLimit > upperPowerLimit THEN upperPowerLimit
        ELSE IF newPowerLimit < c.PowerLimiter_LowerPowerLimit
        THEN c.PowerLimiter_LowerPowerLimit
        ELSE newPowerLimit

\* calcPowerLimit without its safety check of the power meter's age
calcPowerLimit_noSafetyCheck(c, total, meterAge, last, efficency, ppv, consumeSolarPowerOnly) ==
    LET measured == round(total)
        consumption == IF c.PowerLimiter_IsInverterBehindPowerMeter
                       THEN measured + last ELSE measured
        adjusted == adjustedVictronChargePower(getDirectSolarPower(c, ppv), efficency)
        newPowerLimit == consumption - c.PowerLimiter_TargetPowerConsumption
        upperPowerLimit ==
            IF consumeSolarPowerOnly /\ c.PowerLimiter_UpperPowerLimit > adjusted
            THEN adjusted ELSE c.PowerLimiter_UpperPowerLimit
    IN  IF withinTargetHysteresis(c, total) THEN last
        ELSE IF newPowerLimit > upperPowerLimit THEN upperPowerLimit
        ELSE newPowerLimit

\* calcPowerLimit that computes a new limit inside the hysteresis band too
calcPowerLimit_noReuse(c, total, meterAge, last, efficency, ppv, consumeSolarPowerOnly) ==
    LET measured == round(total)
        consumption == IF c.PowerLimiter_IsInverterBehindPowerMeter
                       THEN measured + last ELSE measured
        adjusted == adjustedVictronChargePower(getDirectSolarPower(c, ppv), efficency)
        newPowerLimit == consumption - c.PowerLimiter_TargetPowerConsumption
        upperPowerLimit ==
            IF consumeSolarPowerOnly /\ c.PowerLimiter_UpperPowerLimit > adjusted
            THEN adjusted ELSE c.PowerLimiter_UpperPowerLimit
    IN  IF powerMeterTooOld(meterAge) THEN c.PowerLimiter_LowerPowerLimit
        ELSE IF newPowerLimit > upperPowerLimit THEN upperPowerLimit
        ELSE newPowerLimit

\* calcPowerLimit that clamps to UpperPowerLimit in solar-only mode too
calcPowerLimit_noSolarCap(c, total, meterAge, last, efficency, ppv, consumeSolarPowerOnly) ==
    LET measured == round(total)
        consumption == IF c.PowerLimiter_IsInverterBehindPowerMeter
                       THEN measured + last ELSE measured
        newPowerLimit == consumption - c.PowerLimiter_TargetPowerConsumption
        upperPowerLimit == c.PowerLimiter_UpperPowerLimit
    IN  IF powerMeterTooOld(meterAge) THEN c.PowerLimiter_LowerPowerLimit
        ELSE IF withinTargetHysteresis(c, total) THEN last
        ELSE IF newPowerLimit > upperPowerLimit THEN upperPowerLimit
        ELSE newPowerLimit

calcPowerLimit(c, total, meterAge, last, efficency, ppv, consumeSolarPowerOnly) ==
    LET measured == round(total)
        consumption == IF c.PowerLimiter_IsInverterBehindPowerMeter
                       THEN measured + last ELSE measured
        adjusted == adjustedVictronChargePower(getDirectSolarPower(c, ppv), efficency)
        newPowerLimit == consumption - c.PowerLimiter_TargetPowerConsumption
        upperPowerLimit ==
            IF consumeSolarPowerOnly /\ c.PowerLimiter_UpperPowerLimit > adjusted
            THEN adjusted ELSE c.PowerLimiter_UpperPowerLimit
    IN  IF powerMeterTooOld(meterAge) THEN c.PowerLimiter_LowerPowerLimit
        ELSE IF withinTargetHysteresis(c, total) THEN last
        ELSE IF newPowerLimit > upperPowerLimit THEN upperPowerLimit
        ELSE newPowerLimit

\* a start command for a limit at the floor too
setNewPowerLimit_startAtFloor(c, isProducing, last, newPowerLimit) ==
    LET startUp == ~isProducing /\ newPowerLimit >= c.PowerLimiter_LowerPowerLimit
        below == newPowerLimit < c.PowerLimiter_LowerPowerLimit
        stopIt == below /\ isProducing
        limit == IF below THEN c.PowerLimiter_LowerPowerLimit ELSE newPowerLimit
        send == /\ last # limit
                /\ limit > c.PowerLimiter_LowerPowerLimit
                /\ limit < c.PowerLimiter_UpperPowerLimit
    IN  [ cmds |-> (IF startUp THEN << [type |-> "start", value |-> 0] >> ELSE << >>)
                   \o (IF stopIt THEN << [type |-> "stop", value |-> 0] >> ELSE << >>)
                   \o (IF send THEN << [type |-> "limit", value |-> limit] >> ELSE << >>),
          lastRequestedPowerLimit |-> IF send THEN limit ELSE last,
          stamped |-> startUp \/ stopIt ]

\* a stop command whether the inverter produces or not
setNewPowerLimit_stopAlways(c, isProducing, last, newPowerLimit) ==
    LET startUp == ~isProducing /\ newPowerLimit > c.PowerLimiter_LowerPowerLimit
        below == newPowerLimit < c.PowerLimiter_LowerPowerLimit
        stopIt == below
        limit == IF below THEN c.PowerLimiter_LowerPowerLimit ELSE newPowerLimit
        send == /\ last # limit
                /\ limit > c.PowerLimiter_LowerPowerLimit
                /\ limit < c.PowerLimiter_UpperPowerLimit
    IN  [ cmds |-> (IF startUp THEN << [type |-> "start", value |-> 0] >> ELSE << >>)
                   \o (IF stopIt THEN << [type |-> "stop", value |-> 0] >> ELSE << >>)
                   \o (IF send THEN << [type |-> "limit", value |-> limit] >> ELSE << >>),
          lastRequestedPowerLimit |-> IF send THEN limit ELSE last,
          stamped |-> startUp \/ stopIt ]

\* LowerPowerLimit transmitted as a limit
setNewPowerLimit_floorSent(c, isProducing, last, newPowerLimit) ==
    LET startUp == ~isProducing /\ newPowerLimit > c.PowerLimiter_LowerPowerLimit
        below == newPowerLimit < c.PowerLimiter_LowerPowerLimit
        stopIt == below /\ isProducing
        limit == IF below THEN c.PowerLimiter_LowerPowerLimit ELSE newPowerLimit
        send == /\ last # limit
                /\ limit >= c.PowerLimiter_LowerPowerLimit
                /\ limit < c.PowerLimiter_UpperPowerLimit
    IN  [ cmds |-> (IF startUp THEN << [type |-> "start", value |-> 0] >> ELSE << >>)
                   \o (IF stopIt THEN << [type |-> "stop", value |-> 0] >> ELSE << >>)
                   \o (IF send THEN << [type |-> "limit", value |-> limit] >> ELSE << >>),
          lastRequestedPowerLimit |-> IF send THEN limit ELSE last,
          stamped |-> startUp \/ stopIt ]

\* UpperPowerLimit transmitted as a limit
setNewPowerLimit_upperSent(c, isProducing, last, newPowerLimit) ==
    LET startUp == ~isProducing /\ newPowerLimit > c.PowerLimiter_LowerPowerLimit
        below == newPowerLimit < c.PowerLimiter_LowerPowerLimit
        stopIt == below /\ isProducing
        limit == IF below THEN c.PowerLimiter_LowerPowerLimit ELSE newPowerLimit
        send == /\ last # limit
                /\ limit > c.PowerLimiter_LowerPowerLimit
                /\ limit <= c.PowerLimiter_UpperPowerLimit
    IN  [ cmds |-> (IF startUp THEN << [type |-> "start", value |-> 0] >> ELSE << >>)
                   \o (IF stopIt THEN << [type |-> "stop", value |-> 0] >> ELSE << >>)
                   \o (IF send THEN << [type |-> "limit", value |-> limit] >> ELSE << >>),
          lastRequestedPowerLimit |-> IF send THEN limit ELSE last,
          stamped |-> startUp \/ stopIt ]

\* a limit sent again although it is the last one sent
setNewPowerLimit_resend(c, isProducing, last, newPowerLimit) ==
    LET startUp == ~isProducing /\ newPowerLimit > c.PowerLimiter_LowerPowerLimit
        below == newPowerLimit < c.PowerLimiter_LowerPowerLimit
        stopIt == below /\ isProducing
        limit == IF below THEN c.PowerLimiter_LowerPowerLimit ELSE newPowerLimit
        send == /\ limit > c.PowerLimiter_LowerPowerLimit
                /\ limit < c.PowerLimiter_UpperPowerLimit
    IN  [ cmds |-> (IF startUp THEN << [type |-> "start", value |-> 0] >> ELSE << >>)
                   \o (IF stopIt THEN << [type |-> "stop", value |-> 0] >> ELSE << >>)
                   \o (IF send THEN << [type |-> "limit", value |-> limit] >> ELSE << >>),
          lastRequestedPowerLimit |-> IF send THEN limit ELSE last,
          stamped |-> startUp \/ stopIt ]

\* setNewPowerLimit that transmits any limit above LowerPowerLimit
setNewPowerLimit_noUpperCheck(c, isProducing, last, newPowerLimit) ==
    LET startUp == ~isProducing /\ newPowerLimit > c.PowerLimiter_LowerPowerLimit
        below == newPowerLimit < c.PowerLimiter_LowerPowerLimit
        stopIt == below /\ isProducing
        limit == IF below THEN c.PowerLimiter_LowerPowerLimit ELSE newPowerLimit
        send == /\ last # limit
                /\ limit > c.PowerLimiter_LowerPowerLimit
    IN  [ cmds |-> (IF startUp THEN << [type |-> "start", value |-> 0] >> ELSE << >>)
                   \o (IF stopIt THEN << [type |-> "stop", value |-> 0] >> ELSE << >>)
                   \o (IF send THEN << [type |-> "limit", value |-> limit] >> ELSE << >>),
          lastRequestedPowerLimit |-> IF send THEN limit ELSE last,
          stamped |-> startUp \/ stopIt ]

\* the commands setNewPowerLimit sends, in order, the new _lastRequestedPowerLimit
\* and whether _lastCommandSent is stamped
setNewPowerLimit(c, isProducing, last, newPowerLimit) ==
    LET startUp == ~isProducing /\ newPowerLimit > c.PowerLimiter_LowerPowerLimit
        below == newPowerLimit < c.PowerLimiter_LowerPowerLimit
        stopIt == below /\ isProducing
        limit == IF below THEN c.PowerLimiter_LowerPowerLimit ELSE newPowerLimit
        send == /\ last # limit
                /\ limit > c.PowerLimiter_LowerPowerLimit
                /\ limit < c.PowerLimiter_UpperPowerLimit
    IN  [ cmds |-> (IF startUp THEN << [type |-> "start", value |-> 0] >> ELSE << >>)
                   \o (IF stopIt THEN << [type |-> "stop", value |-> 0] >> ELSE << >>)
                   \o (IF send THEN << [type |-> "limit", value |-> limit] >> ELSE << >>),
          lastRequestedPowerLimit |-> IF send THEN limit ELSE last,
          stamped |-> startUp \/ stopIt ]

-----------------------------------------------------------------------------
(* PowerLimiterClass::loop, step by step *)

\* initial checks that do not ask the radio
loop_initialChecks_radioBusy(c, now, idle, lastCmd, lastLp) ==
    \/ ~c.PowerMeter_Enabled
    \/ elapsedLessThan(now, lastCmd, c.PowerLimiter_Interval * 1000)
    \/ elapsedLessThan(now, lastLp, c.PowerLimiter_Interval * 1000)

\* the initial checks
loop_initialChecks(c, now, idle, lastCmd, lastLp) ==
    \/ ~c.PowerMeter_Enabled
    \/ ~idle
    \/ elapsedLessThan(now, lastCmd, c.PowerLimiter_Interval * 1000)
    \/ elapsedLessThan(now, lastLp, c.PowerLimiter_Interval * 1000)

\* is there an inverter to talk to
inverterAvailable_always(inverter) == TRUE

\* inverter == nullptr || !inverter->isReachable(), negated
inverterAvailable(inverter) == inverter = "reachable"

\* a disabled limiter that leaves the inverter alone
loop_shutdown_noStop(isProducing, st) ==
    [ cmds |-> << >>,
      plState |-> IF isProducing THEN st ELSE "SHUTDOWN" ]

\* a disabled limiter that takes itself for shut down at once
loop_shutdown_atOnce(isProducing, st) ==
    [ cmds |-> IF isProducing THEN << [type |-> "stop", value |-> 0] >> ELSE << >>,
      plState |-> "SHUTDOWN" ]

\* a disabled limiter that never takes itself for shut down
loop_shutdown_never(isProducing, st) ==
    [ cmds |-> IF isProducing THEN << [type |-> "stop", value |-> 0] >> ELSE << >>,
      plState |-> st ]

\* the limiter is disabled and _plState is not SHUTDOWN: stop an inverter that
\* produces, take note of one that does not
loop_shutdown(isProducing, st) ==
    [ cmds |-> IF isProducing THEN << [type |-> "stop", value |-> 0] >> ELSE << >>,
      plState |-> IF isProducing THEN st ELSE "SHUTDOWN" ]

\* inverter statistics of any age
statsTooOld_never(statsAge) == FALSE

\* (millis() - inverter->Statistics()->getLastUpdate()) > 10000
statsTooOld(statsAge) == statsAge > 10000

\* loop() that stays in SHUTDOWN
loop_plState_stays(st) == st

\* "If we're in shutdown move to active operation"
loop_plState(st) == IF st = "SHUTDOWN" THEN "ACTIVE" ELSE st

\* the threshold checks without hysteresis: discharge is on whenever the stop
\* threshold is not reached
loop_batteryDischarge_noLatch(c, enabled, stopReached, startReached, canUse) ==
    LET afterStop == IF stopReached THEN FALSE ELSE TRUE
    IN  IF startReached /\ c.PowerLimiter_BatteryDrainStategy = "EMPTY_WHEN_FULL"
        THEN TRUE ELSE afterStop

\* the threshold checks without the EMPTY_AT_NIGHT strategy
loop_batteryDischarge_noNightDrain(c, enabled, stopReached, startReached, canUse) ==
    LET afterStop ==
            IF stopReached THEN FALSE
            ELSE IF ~canUse THEN TRUE
                 ELSE enabled
    IN  IF startReached /\ c.PowerLimiter_BatteryDrainStategy = "EMPTY_WHEN_FULL"
        THEN TRUE ELSE afterStop

\* the battery discharge flag after the threshold checks
loop_batteryDischarge(c, enabled, stopReached, startReached, canUse) ==
    LET afterStop ==
            IF stopReached THEN FALSE
            ELSE IF ~canUse \/ c.PowerLimiter_BatteryDrainStategy = "EMPTY_AT_NIGHT"
                 THEN TRUE
                 ELSE enabled
    IN  IF startReached /\ c.PowerLimiter_BatteryDrainStategy = "EMPTY_WHEN_FULL"
        THEN TRUE ELSE afterStop

\* a ramp without its cap and its floor
loop_mpptRamp_unbounded(percent, cs) ==
    IF cs = 4 THEN percent + 1 ELSE percent - 1

\* the ramp of the share of MPPT power fed to the grid
loop_mpptRamp(percent, cs) ==
    IF cs = 4
    THEN (IF percent + 1 > 90 THEN 90 ELSE percent + 1)
    ELSE (IF percent - 1 < 0 THEN 0 ELSE percent - 1)

\* int32_t mpptDirectFeedToGridPower = _mpptDirectFeedToGridPercent * PPV
loop_mpptPower(percent, ppv) == (percent * ppv) \div 100

\* loop() that hands the computed limit to setNewPowerLimit as it is
loop_newLimit_computedOnly(newPowerLimit, mpptDirectFeedToGridPower) == newPowerLimit

\* the limit loop() hands to setNewPowerLimit
loop_newLimit(newPowerLimit, mpptDirectFeedToGridPower) ==
    IF newPowerLimit > mpptDirectFeedToGridPower
    THEN newPowerLimit ELSE mpptDirectFeedToGridPower

\* a command as the inverter receives it, with _plState at that moment
Sent(cmds, st) ==
    [ i \in DOMAIN cmds |->
        [type |-> cmds[i].type, value |-> cmds[i].value, plState |-> st] ]

\* the limit in effect at the inverter after it received cmds
LimitAfter(cmds, limit) ==
    IF \E i \in DOMAIN cmds : cmds[i].type = "limit"
    THEN (CHOOSE v \in {cmds[i].value : i \in {j \in DOMAIN cmds : cmds[j].type = "limit"}} : TRUE)
    ELSE limit

-----------------------------------------------------------------------------
(* BatteryGuardClass (src/src/BatteryGuard.cpp, src/include/BatteryGuard.h) *)
(*                                                                         *)
(* Voltages and currents are floats.  A float between 16 V and 32 V is a   *)
(* multiple of 2^-19 V and is carried as that multiple; a float between    *)
(* 8 A and 16 A is a multiple of 2^-20 A and is carried as that multiple.  *)
(* Differences of two such floats are exact; their sum is rounded to the   *)
(* float nearest to it before it is halved.  The constants 0.005f, 0.2f    *)
(* and 0.05f are the floats nearest to 0.005, 0.2 and 0.05:                *)
(* 10737418 * 2^-31, 13421773 * 2^-26 and 13421773 * 2^-28.  Resistances   *)
(* are carried in units of 2^-20 Ohm, a quotient cut to that unit, and the *)
(* result of a division by zero as Infinity.                               *)

\* the float nearest to mv / 1000 volts, for 16000 <= mv < 32000
float32V(mv) ==
    LET x == mv * 65536
    IN  (x \div 125) + (IF 2 * (x % 125) > 125 THEN 1 ELSE 0)

\* the float nearest to ma / 1000 amperes, for 8000 <= ma < 16000
float32A(ma) ==
    LET x == ma * 131072
    IN  (x \div 125) + (IF 2 * (x % 125) > 125 THEN 1 ELSE 0)

\* std::abs
abs(x) == IF x < 0 THEN 0 - x ELSE x

\* (a + b) / 2.0f: the sum has half the precision of a and b and is rounded to
\* the nearest float, a tie to the one with the even mantissa
halfSum(a, b) ==
    LET s == a + b
        k == s \div 2
    IN  IF s % 2 = 0 THEN k ELSE IF k % 2 = 0 THEN k ELSE k + 1

\* +inf, the quotient of a voltage difference and a current difference of zero
Infinity == 2147483647

RECURSIVE quotientBits(_, _, _)
\* the first n binary places of rest / den, for rest < den
quotientBits(rest, den, n) ==
    IF n = 0 THEN 0
    ELSE LET d == 2 * rest
         IN  (d \div den) * (2 ^ (n - 1)) + quotientBits(d % den, den, n - 1)

\* std::abs(dV / dI) in units of 2^-20 Ohm, dV in 2^-19 V and dI in 2^-20 A
resistorOf(dV, dI) ==
    IF dI = 0 THEN Infinity
    ELSE LET num == 2 * abs(dV)
             den == abs(dI)
         IN  (num \div den) * (2 ^ 20) + quotientBits(num % den, den, 20)

\* WeightedAVG<T> before its first addNumber
WeightedAVG ==
    [ count |-> 0, average |-> 0, min |-> 0, max |-> 0, last |-> 0 ]

\* +inf or -inf
isinf(x) == abs(x) = Infinity

\* WeightedAVG<T>::addNumber, weight in percent
addNumber(a, num, weight) ==
    IF a.count = 0
    THEN [ count |-> 1, average |-> num, min |-> num, max |-> num, last |-> num ]
    ELSE [ count |-> a.count + 1,
           average |-> IF isinf(a.average) THEN a.average
                       ELSE IF isinf(num) THEN num
                       ELSE (a.average * (100 - weight) + num * weight) \div 100,
           min |-> IF num < a.min THEN num ELSE a.min,
           max |-> IF num > a.max THEN num ELSE a.max,
           last |-> num ]

\* the two samples of a pair count as one settled reading, whatever the tolerances
settled_always(first, nowVoltage, nowCurrent) == TRUE

\* neither std::abs(_pFirstVolt.first - nowVoltage) > 0.005f
\* nor std::abs(_pFirstVolt.second - nowCurrent) > 0.2f
settled(first, nowVoltage, nowCurrent) ==
    /\ ~(abs(first.first - nowVoltage) * 4096 > 10737418)
    /\ ~(abs(first.second - nowCurrent) * 64 > 13421773)

\* a window that closes with the point that opens it
windowOpen_never(now, lastMinMaxMillis) == FALSE

\* (millis() - _lastMinMaxMillis) < 30*1000
windowOpen(now, lastMinMaxMillis) == elapsedLessThan(now, lastMinMaxMillis, 30 * 1000)

\* any spread will do
spreadSufficient_always(pMaxVolt, pMinVolt) == TRUE

\* (_pMaxVolt.first - _pMinVolt.first) >= _minDiffVoltage, which is 0.05f
spreadSufficient(pMaxVolt, pMinVolt) ==
    (pMaxVolt.first - pMinVolt.first) * 512 >= 13421773

\* the band with its ends
plausible_inclusive(average, resistor) ==
    /\ resistor # Infinity
    /\ average # Infinity
    /\ 2 * resistor >= average
    /\ resistor <= 2 * average

\* (resistor > getAverage() / 2.0f) && (resistor < getAverage() * 2.0f)
plausible(average, resistor) ==
    /\ resistor # Infinity
    /\ average # Infinity
    /\ 2 * resistor > average
    /\ resistor < 2 * average

\* a resistance average that starts anew with every value
addResistor_restarting(a, resistor) == addNumber(WeightedAVG, resistor, 10)

\* a resistance average that takes every value
addResistor_unconditionally(a, resistor) == addNumber(a, resistor, 10)

\* we try to keep out bad values from the average
addResistor(a, resistor) ==
    IF a.count < 10 THEN addNumber(a, resistor, 10)
    ELSE IF plausible(a.average, resistor) THEN addNumber(a, resistor, 10)
    ELSE a

\* BatteryGuardClass::calculateInternalResistance at millis() = now: the members
\* after the call, with what the call did
calculateInternalResistance(g, nowVoltage, nowCurrent, now) ==
    IF ~g.firstOfTwoAvailable \/ ~settled(g.pFirstVolt, nowVoltage, nowCurrent)
    THEN [ g |-> [g EXCEPT !.pFirstVolt = [first |-> nowVoltage, second |-> nowCurrent],
                           !.firstOfTwoAvailable = TRUE],
           point |-> << >>, closed |-> FALSE, resistor |-> << >>, result |-> FALSE ]
    ELSE
    LET avgVolt == [ first |-> halfSum(nowVoltage, g.pFirstVolt.first),
                     second |-> halfSum(nowCurrent, g.pFirstVolt.second) ]
        pMinVolt == IF ~g.minMaxAvailable THEN avgVolt
                    ELSE IF avgVolt.first < g.pMinVolt.first THEN avgVolt ELSE g.pMinVolt
        pMaxVolt == IF ~g.minMaxAvailable THEN avgVolt
                    ELSE IF avgVolt.first > g.pMaxVolt.first THEN avgVolt ELSE g.pMaxVolt
        lastMinMaxMillis == IF ~g.minMaxAvailable THEN now ELSE g.lastMinMaxMillis
        g1 == [g EXCEPT !.firstOfTwoAvailable = FALSE,
                        !.pMinVolt = pMinVolt,
                        !.pMaxVolt = pMaxVolt,
                        !.lastMinMaxMillis = lastMinMaxMillis,
                        !.minMaxAvailable = TRUE]
        resistor == resistorOf(pMaxVolt.first - pMinVolt.first,
                               pMaxVolt.second - pMinVolt.second)
    IN  IF windowOpen(now, lastMinMaxMillis)
        THEN [ g |-> g1, point |-> << avgVolt >>, closed |-> FALSE,
               resistor |-> << >>, result |-> FALSE ]
        ELSE IF spreadSufficient(pMaxVolt, pMinVolt)
        THEN [ g |-> [g1 EXCEPT !.minMaxAvailable = FALSE,
                                !.resistanceFromCalcAVG = addResistor(@, resistor)],
               point |-> << avgVolt >>, closed |-> TRUE,
               resistor |-> << resistor >>, result |-> TRUE ]
        ELSE [ g |-> [g1 EXCEPT !.minMaxAvailable = FALSE],
               point |-> << avgVolt >>, closed |-> TRUE,
               resistor |-> << >>, result |-> FALSE ]

\* an accessor that hands out the average of four values
getInternalResistance_moreThanThree(g) ==
    IF g.resistanceFromCalcAVG.count > 3 THEN << g.resistanceFromCalcAVG.average >>
    ELSE IF g.resistanceFromConfig # 0 THEN << g.resistanceFromConfig >>
    ELSE << >>

\* an accessor that withholds the average of five values
getInternalResistance_moreThanFive(g) ==
    IF g.resistanceFromCalcAVG.count > 5 THEN << g.resistanceFromCalcAVG.average >>
    ELSE IF g.resistanceFromConfig # 0 THEN << g.resistanceFromConfig >>
    ELSE << >>

\* BatteryGuardClass::getInternalResistance: << >> for std::nullopt
getInternalResistance(g) ==
    IF g.resistanceFromCalcAVG.count > 4 THEN << g.resistanceFromCalcAVG.average >>
    ELSE IF g.resistanceFromConfig # 0 THEN << g.resistanceFromConfig >>
    ELSE << >>

\* nowVoltage - nowCurrent * oResistor.value(), the product cut to 2^-19 V
openCircuitVoltage(nowVoltage, nowCurrent, resistor) ==
    IF resistor = Infinity THEN 0 - Infinity
    ELSE nowVoltage - (((nowCurrent \div 4096) * resistor) \div 512)

\* an estimator that adds every open circuit voltage twice
calculateOpenCircuitVoltage_twice(g, nowVoltage, nowCurrent) ==
    LET oResistor == getInternalResistance(g)
        ocv == openCircuitVoltage(nowVoltage, nowCurrent, oResistor[1])
    IN  IF oResistor # << >>
        THEN [g EXCEPT !.openCircuitVoltageAVG = addNumber(addNumber(@, ocv, 5), ocv, 5)]
        ELSE g

\* BatteryGuardClass::calculateOpenCircuitVoltage
calculateOpenCircuitVoltage(g, nowVoltage, nowCurrent) ==
    LET oResistor == getInternalResistance(g)
    IN  IF oResistor # << >>
        THEN [g EXCEPT !.openCircuitVoltageAVG =
                 addNumber(@, openCircuitVoltage(nowVoltage, nowCurrent,
                                                 oResistor[1]), 5)]
        ELSE g

\* battery data that is valid half a minute and no less
isDataValid_inclusive(g, now) == now - g.battMillis <= 30000

\* BatteryGuardClass::isDataValid at millis() = now
isDataValid(g, now) == elapsedLessThan(now, g.battMillis, 30 * 1000)

\* BatteryGuardClass::getOpenCircuitVoltage at millis() = now: the members after
\* the call and what it returns, << >> for std::nullopt
getOpenCircuitVoltage(g, now) ==
    IF g.openCircuitVoltageAVG.count > 0 /\ isDataValid(g, now)
    THEN [ g |-> g, answer |-> << g.openCircuitVoltageAVG.average >> ]
    ELSE [ g |-> [g EXCEPT !.notAvailableCounter = @ + 1], answer |-> << >> ]

-----------------------------------------------------------------------------
(* The state machine *)

\* PowerLimiterClass::init(), with the member initialisers of PowerLimiter.h
init_PowerLimiter(configs) ==
    /\ config \in configs
    /\ plState = "ACTIVE"
    /\ batteryDischargeEnabled = FALSE
    /\ lastRequestedPowerLimit = 0
    /\ mpptDirectFeedToGridPercent = 0
    /\ lastCommandSent = 0
    /\ lastLoop = 0
    /\ producing \in BOOLEAN
    /\ inverterLimit = 0
    /\ calcReturned = << >>
    /\ socLatched = FALSE
    /\ ticks = 0
    /\ tk = Returned("init")

\* the members of BatteryGuardClass after init(), which calls updateSettings()
BatteryGuard ==
    [ useBatteryGuard |-> TRUE,
      battVoltage |-> 0,
      battCurrent |-> 0,
      battMillis |-> 0,
      battPeriod |-> addNumber(WeightedAVG, 1000, 20),
      battVoltageAVG |-> WeightedAVG,
      openCircuitVoltageAVG |-> WeightedAVG,
      resistanceFromConfig |-> 0,
      notAvailableCounter |-> 0,
      resistanceFromCalcAVG |-> WeightedAVG,
      firstOfTwoAvailable |-> FALSE,
      minMaxAvailable |-> FALSE,
      pFirstVolt |-> [first |-> 0, second |-> 0],
      pMaxVolt |-> [first |-> 0, second |-> 0],
      pMinVolt |-> [first |-> 0, second |-> 0],
      lastMinMaxMillis |-> 0 ]

\* the members of BatteryGuardClass as constructed, before init()
BatteryGuardConstructed ==
    [BatteryGuard EXCEPT !.useBatteryGuard = FALSE, !.battPeriod = WeightedAVG]

\* before the first call of updateBatteryValues and of the accessors: the
\* readings fed, millis() at the last call, what the last call of
\* updateBatteryValues did, the accessor called last with what it returned, the
\* number of accessor calls, and millis() at the last open circuit voltage
NoCall ==
    [ fed |-> << >>, millis |-> 0, point |-> << >>, closed |-> FALSE,
      resistor |-> << >>, result |-> FALSE,
      asked |-> "none", answer |-> << >>, queries |-> 0, ocvAt |-> << >> ]

\* the members of PowerMeterClass after init(), powers in tenths of a watt
PowerMeter ==
    [ powerMeter1Power |-> 0, powerMeter2Power |-> 0, powerMeter3Power |-> 0,
      powerMeterTotalPower |-> 0, lastPowerMeterUpdate |-> 0 ]

\* mk before the first call
NoEvent == [ millis |-> 0, event |-> "init", refreshed |-> FALSE, events |-> 0 ]

\* PowerMeterClass::init()
init_PowerMeter ==
    /\ meter = PowerMeter
    /\ mk = NoEvent

\* BatteryGuardClass::init(), the resistance average being one of averages
init_BatteryGuard(averages) ==
    /\ guard \in { [BatteryGuard EXCEPT !.resistanceFromCalcAVG = a] : a \in averages }
    /\ gk = NoCall

\* both after init()
InitWith(configs) ==
    /\ init_PowerLimiter(configs)
    /\ init_BatteryGuard({WeightedAVG})
    /\ init_PowerMeter

\* the part of loop() behind the check of the inverter statistics' age
loop_control(now, idle, inverter, statsAge, total, meterAge, ppv, cs, efficency, bat, inv) ==
    LET st == loop_plState(plState)
        stopReached == isStopThresholdReached(config, bat, inv)
        startReached == isStartThresholdReached(config, bat, inv)
        canUse == canUseDirectSolarPower(config, ppv)
        discharge == loop_batteryDischarge(config, batteryDischargeEnabled,
                                           stopReached, startReached, canUse)
        percent == loop_mpptRamp(mpptDirectFeedToGridPercent, cs)
        mpptPower == loop_mpptPower(percent, ppv)
        newPowerLimit == calcPowerLimit(config, total, meterAge, lastRequestedPowerLimit,
                                        efficency, ppv, ~discharge)
        set == setNewPowerLimit(config, producing, lastRequestedPowerLimit,
                                loop_newLimit(newPowerLimit, mpptPower))
    IN  /\ plState' = st
        /\ batteryDischargeEnabled' = discharge
        /\ mpptDirectFeedToGridPercent' = percent
        /\ lastRequestedPowerLimit' = set.lastRequestedPowerLimit
        /\ lastCommandSent' = IF set.stamped THEN now ELSE lastCommandSent
        /\ inverterLimit' = LimitAfter(set.cmds, inverterLimit)
        /\ calcReturned' = << newPowerLimit >>
        /\ socLatched' = IF discharge THEN FALSE
                         ELSE IF socStopReached(config, bat) THEN TRUE
                         ELSE socLatched
        /\ tk' = [ path |-> "control",
                   stale |-> powerMeterTooOld(meterAge),
                   inBand |-> withinTargetHysteresis(config, total),
                   stop |-> stopReached,
                   start |-> startReached,
                   socStop |-> socStopReached(config, bat),
                   socBetween |-> socBetweenThresholds(config, bat),
                   canUse |-> canUse,
                   wasLatched |-> socLatched,
                   solarOnly |-> ~discharge,
                   adjSolar |-> adjustedVictronChargePower(
                                    getDirectSolarPower(config, ppv), efficency),
                   solar100 |-> getDirectSolarPower(config, ppv) * efficency,
                   calc |-> newPowerLimit,
                   calcBefore |-> calcReturned,
                   limitBefore |-> inverterLimit,
                   plBefore |-> plState,
                   mppt |-> mpptPower,
                   cmds |-> Sent(set.cmds, st),
                   inverter |-> inverter,
                   statsAge |-> statsAge,
                   cs |-> cs,
                   idle |-> << idle >> ]
        /\ UNCHANGED <<config, producing>>

\* the part of loop() behind the initial checks; _lastLoop is set already
loop_inverter(R, now, idle, inverter) ==
    LET quiet == <<plState, batteryDischargeEnabled, lastRequestedPowerLimit,
                   mpptDirectFeedToGridPercent, lastCommandSent, inverterLimit,
                   calcReturned, socLatched, config, producing>>
    IN  IF ~inverterAvailable(inverter)
        THEN /\ tk' = [Returned("unreachable") EXCEPT !.inverter = inverter,
                                                       !.idle = << idle >>]
             /\ UNCHANGED quiet
        ELSE \E statsAge \in StatsAges :
          LET returned(path) == [Returned(path) EXCEPT !.inverter = inverter,
                                                       !.statsAge = statsAge,
                                                       !.idle = << idle >>]
          IN  IF ~config.PowerLimiter_Enabled /\ plState # "SHUTDOWN"
              THEN LET shutdown == loop_shutdown(producing, plState)
                   IN  /\ plState' = shutdown.plState
                       /\ tk' = [returned("shutdown") EXCEPT
                                   !.cmds = Sent(shutdown.cmds, plState)]
                       /\ UNCHANGED <<batteryDischargeEnabled, lastRequestedPowerLimit,
                                      mpptDirectFeedToGridPercent, lastCommandSent,
                                      inverterLimit, calcReturned, socLatched, config,
                                      producing>>
              ELSE IF ~config.PowerLimiter_Enabled
              THEN tk' = returned("disabled") /\ UNCHANGED quiet
              ELSE IF statsTooOld(statsAge)
              THEN tk' = returned("statsTooOld") /\ UNCHANGED quiet
              ELSE \E total \in R.Loads, meterAge \in R.MeterAges, ppv \in R.PPVs,
                      cs \in R.CSs, efficency \in R.Efficiencies,
                      bat \in R.BatteryReadings, inv \in R.InverterReadings :
                      loop_control(now, idle, inverter, statsAge, total, meterAge,
                                   ppv, cs, efficency, bat, inv)

\* PowerLimiterClass::loop(), its readings drawn from R
loop(R) ==
    /\ ticks < MaxTicks
    /\ UNCHANGED <<guard, gk, meter, mk>>
    /\ \E elapsed \in Elapsed, idle \in BOOLEAN :
          LET now == lastLoop + elapsed
          IN  IF loop_initialChecks(config, now, idle, lastCommandSent, lastLoop)
              THEN /\ tk' = Returned("skipped")
                   /\ UNCHANGED <<config, plState, batteryDischargeEnabled,
                                  lastRequestedPowerLimit, mpptDirectFeedToGridPercent,
                                  lastCommandSent, lastLoop, producing, inverterLimit,
                                  calcReturned, socLatched, ticks>>
              ELSE /\ lastLoop' = now
                   /\ ticks' = ticks + 1
                   /\ \E inverter \in R.Inverters :
                          loop_inverter(R, now, idle, inverter)

\* the inverter starts or stops producing
InverterProducing ==
    /\ producing' = ~producing
    /\ UNCHANGED <<config, plState, batteryDischargeEnabled, lastRequestedPowerLimit,
                   mpptDirectFeedToGridPercent, lastCommandSent, lastLoop,
                   inverterLimit, calcReturned, socLatched, ticks, tk, guard, gk, meter, mk>>

\* the user enables or disables the power limiter
SetPowerLimiterEnabled ==
    /\ config' = [config EXCEPT !.PowerLimiter_Enabled = ~@]
    /\ UNCHANGED <<plState, batteryDischargeEnabled, lastRequestedPowerLimit,
                   mpptDirectFeedToGridPercent, lastCommandSent, lastLoop, producing,
                   inverterLimit, calcReturned, socLatched, ticks, tk, guard, gk, meter, mk>>

\* std::stof of the payloads of the model, in tenths of a watt
stof(payload) ==
    CASE payload = "100.0" -> 1000
      [] payload = "250.5" -> 2505

\* PowerMeterClass::onMqttMessage at millis() = now: the members after the call
\* and whether _powerMeterTotalPower was written
onMqttMessage_at(c, m, topic, payload, now) ==
    LET listening == c.PowerMeter_Enabled /\ c.PowerMeter_Source = 0
        p1 == IF topic = 1 THEN stof(payload) ELSE m.powerMeter1Power
        p2 == IF topic = 2 THEN stof(payload) ELSE m.powerMeter2Power
        p3 == IF topic = 3 THEN stof(payload) ELSE m.powerMeter3Power
    IN  [ m |-> IF listening
                THEN [ powerMeter1Power |-> p1, powerMeter2Power |-> p2,
                       powerMeter3Power |-> p3,
                       powerMeterTotalPower |-> p1 + p2 + p3,
                       lastPowerMeterUpdate |-> now ]
                ELSE [m EXCEPT !.lastPowerMeterUpdate = now],
          refreshed |-> listening ]

\* PowerMeterClass::loop at millis() = now, the SDM meter answering reading
PowerMeter_loop_at(c, m, reading, now) ==
    IF c.PowerMeter_Enabled
       /\ ~elapsedLessThan(now, m.lastPowerMeterUpdate, c.PowerMeter_Interval * 1000)
    THEN [ m |-> [m EXCEPT !.powerMeterTotalPower =
                               IF c.PowerMeter_Source \in {1, 2} THEN reading ELSE @,
                           !.lastPowerMeterUpdate = now],
           refreshed |-> c.PowerMeter_Source \in {1, 2} ]
    ELSE [ m |-> m, refreshed |-> FALSE ]

\* a message arrives on one of the subscribed topics, one of M.Waits
\* milliseconds after the call before
onMqttMessage(M) ==
    /\ mk.events < MaxEvents
    /\ \E wait \in M.Waits, topic \in M.Topics, payload \in M.Payloads :
          LET now == mk.millis + wait
              r == onMqttMessage_at(config, meter, topic, payload, now)
          IN  /\ meter' = r.m
              /\ mk' = [ millis |-> now, event |-> "onMqttMessage",
                         refreshed |-> r.refreshed, events |-> mk.events + 1 ]
    /\ UNCHANGED <<config, plState, batteryDischargeEnabled, lastRequestedPowerLimit,
                   mpptDirectFeedToGridPercent, lastCommandSent, lastLoop, producing,
                   inverterLimit, calcReturned, socLatched, ticks, tk, guard, gk>>

\* the main loop calls PowerMeterClass::loop()
PowerMeter_loop(M) ==
    /\ mk.events < MaxEvents
    /\ \E wait \in M.Waits, reading \in M.SdmReadings :
          LET now == mk.millis + wait
              r == PowerMeter_loop_at(config, meter, reading, now)
          IN  /\ meter' = r.m
              /\ mk' = [ millis |-> now, event |-> "loop",
                         refreshed |-> r.refreshed, events |-> mk.events + 1 ]
    /\ UNCHANGED <<config, plState, batteryDischargeEnabled, lastRequestedPowerLimit,
                   mpptDirectFeedToGridPercent, lastCommandSent, lastLoop, producing,
                   inverterLimit, calcReturned, socLatched, ticks, tk, guard, gk>>

\* a tick of the limiter reaches calcPowerLimit, which reads the power meter;
\* the battery may be discharged and there is no solar power.  The first tick
\* is due PowerLimiter_Interval seconds after init() and needs the power meter
\* enabled.
calcPowerLimit_meter(M) ==
    /\ mk.events < MaxEvents
    /\ \E wait \in M.Waits :
          LET now == mk.millis + wait
              meterAge == now - meter.lastPowerMeterUpdate
          IN  /\ ~loop_initialChecks(config, now, TRUE, lastCommandSent, lastLoop)
              /\ tk' = [ path |-> "calcPowerLimit",
                         total |-> meter.powerMeterTotalPower,
                         lastPowerMeterUpdate |-> meter.lastPowerMeterUpdate,
                         meterAge |-> meterAge,
                         ppv |-> 19,
                         efficency |-> 95,
                         consumeSolarPowerOnly |-> FALSE,
                         returned |-> calcPowerLimit(config, meter.powerMeterTotalPower,
                                                     meterAge, lastRequestedPowerLimit,
                                                     95, 19, FALSE) ]
              /\ mk' = [ millis |-> now, event |-> "calcPowerLimit",
                         refreshed |-> FALSE, events |-> mk.events + 1 ]
    /\ UNCHANGED <<config, plState, batteryDischargeEnabled, lastRequestedPowerLimit,
                   mpptDirectFeedToGridPercent, lastCommandSent, lastLoop, producing,
                   inverterLimit, calcReturned, socLatched, ticks, guard, gk, meter>>

\* a guard that lets every reading pass
accepted_always(useBatteryGuard, voltage) == TRUE

\* the guard of updateBatteryValues: _useBatteryGuard && (voltage >= 0.0f)
accepted(useBatteryGuard, voltage) == useBatteryGuard /\ voltage >= 0

\* BatteryGuardClass::updateBatteryValues(voltage, current, millisStamp), called
\* at millis() = now
updateBatteryValues_at(voltage, current, millisStamp, now) ==
    IF accepted(guard.useBatteryGuard, voltage)
    THEN LET g1 == [guard EXCEPT
                      !.battPeriod = IF guard.battMillis # 0 /\ voltage # guard.battVoltage
                                     THEN addNumber(@, millisStamp - guard.battMillis, 20)
                                     ELSE @,
                      !.battVoltage = voltage,
                      !.battCurrent = current,
                      !.battMillis = millisStamp,
                      !.battVoltageAVG = addNumber(@, voltage, 5)]
             r == calculateInternalResistance(g1, voltage, current, now)
             g2 == calculateOpenCircuitVoltage(r.g, voltage, current)
         IN  /\ guard' = g2
             /\ gk' = [ fed |-> Append(gk.fed, [voltage |-> voltage, current |-> current,
                                                at |-> now]),
                        millis |-> now,
                        point |-> r.point,
                        closed |-> r.closed,
                        resistor |-> r.resistor,
                        result |-> r.result,
                        asked |-> "none",
                        answer |-> << >>,
                        queries |-> gk.queries,
                        ocvAt |-> IF g2.openCircuitVoltageAVG = guard.openCircuitVoltageAVG
                                  THEN gk.ocvAt ELSE << now >> ]
    ELSE /\ guard' = guard
         /\ gk' = [NoCall EXCEPT !.fed = Append(gk.fed, [voltage |-> voltage,
                                                         current |-> current,
                                                         at |-> now]),
                                 !.millis = now,
                                 !.queries = gk.queries,
                                 !.ocvAt = gk.ocvAt]

\* the battery provider hands a reading to the battery guard; G gives the
\* readings (Samples) and the milliseconds since the call before (Elapsed)
updateBatteryValues(G) ==
    /\ Len(gk.fed) + gk.queries < MaxCalls
    /\ \E sample \in G.Samples, elapsed \in G.Elapsed :
          LET now == gk.millis + elapsed
          IN  updateBatteryValues_at(sample.voltage, sample.current, now, now)
    /\ UNCHANGED <<config, plState, batteryDischargeEnabled, lastRequestedPowerLimit,
                   mpptDirectFeedToGridPercent, lastCommandSent, lastLoop, producing,
                   inverterLimit, calcReturned, socLatched, ticks, tk, meter, mk>>

\* the limiter's members and the power meter's, which the battery guard
\* leaves alone
limiter ==
    <<config, plState, batteryDischargeEnabled, lastRequestedPowerLimit,
      mpptDirectFeedToGridPercent, lastCommandSent, lastLoop, producing,
      inverterLimit, calcReturned, socLatched, ticks, tk, meter, mk>>

\* BatteryGuardClass::init(), which calls updateSettings(), called once
updateSettings ==
    /\ ~guard.useBatteryGuard
    /\ guard' = [guard EXCEPT !.useBatteryGuard = TRUE,
                              !.resistanceFromConfig = 0,
                              !.battPeriod = addNumber(@, 1000, 20)]
    /\ UNCHANGED gk
    /\ UNCHANGED limiter

\* a consumer calls getInternalResistance()
getInternalResistance_call ==
    /\ Len(gk.fed) + gk.queries < MaxCalls
    /\ gk' = [gk EXCEPT !.asked = "getInternalResistance",
                        !.answer = getInternalResistance(guard),
                        !.queries = @ + 1]
    /\ UNCHANGED guard
    /\ UNCHANGED limiter

\* a consumer calls getOpenCircuitVoltage(), one of G.Waits milliseconds after
\* the call before
getOpenCircuitVoltage_call(G) ==
    /\ Len(gk.fed) + gk.queries < MaxCalls
    /\ \E wait \in G.Waits :
          LET now == gk.millis + wait
              r == getOpenCircuitVoltage(guard, now)
          IN  /\ guard' = r.g
              /\ gk' = [gk EXCEPT !.millis = now,
                                  !.asked = "getOpenCircuitVoltage",
                                  !.answer = r.answer,
                                  !.queries = @ + 1]
    /\ UNCHANGED limiter

\* calcPowerLimit is called with arguments drawn from A; tk then holds the
\* arguments and what it returned
calcPowerLimit_call(A) ==
    /\ tk.path # "calcPowerLimit"
    /\ \E total \in A.Loads, meterAge \in A.MeterAges, ppv \in A.PPVs,
          efficency \in A.Efficiencies, consumeSolarPowerOnly \in BOOLEAN :
          tk' = [ path |-> "calcPowerLimit",
                  total |-> total,
                  meterAge |-> meterAge,
                  ppv |-> ppv,
                  efficency |-> efficency,
                  consumeSolarPowerOnly |-> consumeSolarPowerOnly,
                  returned |-> calcPowerLimit(config, total, meterAge,
                                              lastRequestedPowerLimit, efficency, ppv,
                                              consumeSolarPowerOnly) ]
    /\ UNCHANGED <<config, plState, batteryDischargeEnabled, lastRequestedPowerLimit,
                   mpptDirectFeedToGridPercent, lastCommandSent, lastLoop, producing,
                   inverterLimit, calcReturned, socLatched, ticks, guard, gk, meter, mk>>

\* isStartThresholdReached and isStopThresholdReached are called with readings
\* drawn from A; tk then holds the readings and what the two returned
thresholds_call(A) ==
    /\ tk.path # "thresholds"
    /\ \E bat \in A.BatteryReadings, inv \in A.InverterReadings :
          tk' = [ path |-> "thresholds",
                  bat |-> bat,
                  inv |-> inv,
                  correctedDcVoltage |-> getLoadCorrectedVoltage(config, inv),
                  start |-> isStartThresholdReached(config, bat, inv),
                  stop |-> isStopThresholdReached(config, bat, inv) ]
    /\ UNCHANGED <<config, plState, batteryDischargeEnabled, lastRequestedPowerLimit,
                   mpptDirectFeedToGridPercent, lastCommandSent, lastLoop, producing,
                   inverterLimit, calcReturned, socLatched, ticks, guard, gk, meter, mk>>

\* the limiter with the readings of the power computation
Init == InitWith(LimitConfigs)

Tick == loop(LimitReadings)

Next == Tick \/ InverterProducing \/ SetPowerLimiterEnabled

Spec == Init /\ [][Next]_vars

\* The readings the battery guard is given are drawn from a record of sets:
\*   Samples   voltage and current, as floats
\*   Elapsed   milliseconds between a call of updateBatteryValues and the next

\* readings around the tolerances of a settled pair: 5 mV and 6 mV, 0.2 A and
\* 0.3 A apart
SettleReadings ==
    [ Samples |-> { [voltage |-> float32V(24000), current |-> float32A(10000)],
                    [voltage |-> float32V(24005), current |-> float32A(10200)],
                    [voltage |-> float32V(24006), current |-> float32A(10000)],
                    [voltage |-> float32V(24000), current |-> float32A(10300)] },
      Elapsed |-> {1000} ]

\* readings around the 30 s of the window and the 50 mV of the spread
WindowReadings ==
    [ Samples |-> { [voltage |-> float32V(24000), current |-> float32A(10000)],
                    [voltage |-> float32V(24050), current |-> float32A(8000)],
                    [voltage |-> float32V(24060), current |-> float32A(8000)] },
      Elapsed |-> {14999, 15000} ]

\* 24.00 V at 10.0 A and 24.05 V at 8.0 A, a second or half a minute apart
ScenarioReadings ==
    [ Samples |-> { [voltage |-> float32V(24000), current |-> float32A(10000)],
                    [voltage |-> float32V(24050), current |-> float32A(8000)] },
      Elapsed |-> {1000, 30000} ]

\* 24.0 V at 10.0 A and 24.0625 V at 8.0 A: a resistance of 2^-5 Ohm
GateReadings ==
    [ Samples |-> { [voltage |-> float32V(24000), current |-> float32A(10000)],
                    [voltage |-> float32V(24000) + 32768, current |-> float32A(8000)] },
      Elapsed |-> {1000, 30000} ]

\* resistance averages of 9 and of 10 values that were all the same: 2^-6 Ohm,
\* 30000 * 2^-20 Ohm, 2^-4 Ohm, 2^-3 Ohm
GateAverages ==
    { [ count |-> n, average |-> r, min |-> r, max |-> r, last |-> r ] :
        n \in {9, 10}, r \in {16384, 30000, 65536, 131072} }

\* readings of a charger in the absorption phase (CS 4) and in another one, of
\* an inverter within reach and one out of it
RampReadings ==
    [ Loads |-> {1200},
      MeterAges |-> {30000},
      PPVs |-> {100},
      CSs |-> {3, 4},
      Efficiencies |-> {95},
      BatteryReadings |-> { [soc |-> 50, age |-> 59999] },
      InverterReadings |-> { [udc |-> 26000, pac |-> 0] },
      Inverters |-> {"unreachable", "reachable"} ]

\* _mpptDirectFeedToGridPercent, in hundredths, at the floor and near the cap
RampStarts == {0, 1, 88, 89, 90}

\* the limiter after ticks that left _mpptDirectFeedToGridPercent at one of
\* RampStarts; loop() is called for ever, and time and again at a moment at
\* which the initial checks let it pass
InitRamp ==
    /\ config \in ShutdownConfigs
    /\ plState = "ACTIVE"
    /\ batteryDischargeEnabled = FALSE
    /\ lastRequestedPowerLimit = 0
    /\ mpptDirectFeedToGridPercent \in RampStarts
    /\ lastCommandSent = 0
    /\ lastLoop = 0
    /\ producing \in BOOLEAN
    /\ inverterLimit = 0
    /\ calcReturned = << >>
    /\ socLatched = FALSE
    /\ ticks = 0
    /\ tk = Returned("init")
    /\ init_BatteryGuard({WeightedAVG})
    /\ init_PowerMeter

TickRamp == loop(RampReadings)

RampTickExecuted == TickRamp /\ ticks' # ticks

NextRamp == TickRamp \/ InverterProducing

SpecRamp == InitRamp /\ [][NextRamp]_vars /\ WF_vars(RampTickExecuted)

\* readings that make setNewPowerLimit see limits below, at and above the lower
\* limit, at the upper limit and the limit it sent last: with a full battery and
\* a lower limit of 50 W, an upper limit of 150 W and a target of 20 W, loads of
\* -400, 20 (reuse), 70, 95, 100 and 170 W, in tenths of a watt; the solar ramp
\* adds 60 W a tick
CommandReadings ==
    [ Loads |-> {-4000, 200, 700, 950, 1000, 1700},
      MeterAges |-> {30000},
      PPVs |-> {19, 6000},
      CSs |-> {3, 4},
      Efficiencies |-> {95},
      BatteryReadings |-> { [soc |-> 90, age |-> 59999] },
      InverterReadings |-> { [udc |-> 26000, pac |-> 0] },
      Inverters |-> {"reachable"} ]

InitCommands == InitWith({BaseConfig})

TickCommands == loop(CommandReadings)

NextCommands == TickCommands \/ InverterProducing \/ SetPowerLimiterEnabled

SpecCommands == InitCommands /\ [][NextCommands]_vars

\* arguments of calcPowerLimit: loads of -400, 9.5, 30.4, 30.5, 120 and 900 W
\* around a target of 20 W with a hysteresis of 10 W, a meter reading 30 s old
\* and one older, solar power below and above the 20 W that count
CalcArguments ==
    [ Loads |-> {-4000, 95, 304, 305, 1200, 9000},
      MeterAges |-> {30000, 30001},
      PPVs |-> {19, 100, 8000},
      Efficiencies |-> {0, 95} ]

CalcConfigs ==
    { BaseConfig,
      [BaseConfig EXCEPT !.PowerLimiter_IsInverterBehindPowerMeter = TRUE],
      [BaseConfig EXCEPT !.PowerLimiter_SolarPassThroughEnabled = FALSE] }

\* limits that were requested last
CalcLastRequested == {0, 75, 149}

\* the limiter after a limit was transmitted, or none
InitCalc ==
    /\ config \in CalcConfigs
    /\ plState = "ACTIVE"
    /\ batteryDischargeEnabled \in BOOLEAN
    /\ lastRequestedPowerLimit \in CalcLastRequested
    /\ mpptDirectFeedToGridPercent = 0
    /\ lastCommandSent = 0
    /\ lastLoop = 0
    /\ producing \in BOOLEAN
    /\ inverterLimit = lastRequestedPowerLimit
    /\ calcReturned = << >>
    /\ socLatched = FALSE
    /\ ticks = 0
    /\ tk = Returned("init")
    /\ init_BatteryGuard({WeightedAVG})
    /\ init_PowerMeter

NextCalc == calcPowerLimit_call(CalcArguments)

SpecCalc == InitCalc /\ [][NextCalc]_vars

\* readings around the thresholds of 20 % and 90 %, 24 V and 28 V, and around
\* the 60 s of a state of charge; voltages in millivolts, the correction 1 mV
\* a watt
ThresholdReadings ==
    [ BatteryReadings |-> { [soc |-> s, age |-> a] :
                              s \in {19, 20, 21, 89, 90, 91}, a \in {59999, 60000} },
      InverterReadings |-> { [udc |-> u, pac |-> w] :
                               u \in {-1000, 0, 23999, 24000, 24001, 27999, 28000, 28001},
                               w \in {0, 1, 2000} } ]

ThresholdConfigs ==
    { BaseConfig,
      [BaseConfig EXCEPT !.Battery_Enabled = FALSE],
      [BaseConfig EXCEPT !.PowerLimiter_BatterySocStartThreshold = 0,
                         !.PowerLimiter_BatterySocStopThreshold = 0],
      [BaseConfig EXCEPT !.PowerLimiter_VoltageStartThreshold = 0,
                         !.PowerLimiter_VoltageStopThreshold = 0],
      [BaseConfig EXCEPT !.Battery_Enabled = FALSE,
                         !.PowerLimiter_VoltageStartThreshold = 0,
                         !.PowerLimiter_VoltageStopThreshold = 0] }

InitThresholds == InitWith(ThresholdConfigs)

NextThresholds == thresholds_call(ThresholdReadings)

SpecThresholds == InitThresholds /\ [][NextThresholds]_vars

\* the battery guard alone
InitSettle ==
    /\ init_PowerLimiter({BaseConfig})
    /\ ~producing
    /\ init_BatteryGuard({WeightedAVG})
    /\ init_PowerMeter

NextSettle == updateBatteryValues(SettleReadings)

SpecSettle == InitSettle /\ [][NextSettle]_vars

NextWindow == updateBatteryValues(WindowReadings)

SpecWindow == InitSettle /\ [][NextWindow]_vars

NextScenario == updateBatteryValues(ScenarioReadings)

SpecScenario == InitSettle /\ [][NextScenario]_vars

\* the battery guard after nine or ten resistances
InitGate ==
    /\ init_PowerLimiter({BaseConfig})
    /\ ~producing
    /\ init_BatteryGuard(GateAverages)
    /\ init_PowerMeter

NextGate == updateBatteryValues(GateReadings)

SpecGate == InitGate /\ [][NextGate]_vars

\* The accessor getInternalResistance() is a function of the count and the
\* average of the resistances and of the configured resistance, which
\* updateSettings() is yet to take from the configuration: counts around its
\* threshold, averages of 2^-6 and 2^-5 Ohm, no configured resistance and one of
\* 20000 * 2^-20 Ohm
ResistanceAverages ==
    { [ count |-> n, average |-> r, min |-> r, max |-> r, last |-> r ] :
        n \in {3, 4, 5, 10}, r \in {16384, 32768} }
    \cup {WeightedAVG}

ResistancesFromConfig == {0, 20000}

InitResistance ==
    /\ init_PowerLimiter({BaseConfig})
    /\ ~producing
    /\ guard \in { [BatteryGuard EXCEPT !.resistanceFromCalcAVG = a,
                                        !.resistanceFromConfig = c] :
                      a \in ResistanceAverages, c \in ResistancesFromConfig }
    /\ gk = NoCall
    /\ init_PowerMeter

NextResistance == getInternalResistance_call

SpecResistance == InitResistance /\ [][NextResistance]_vars

\* 24.0 V at 10.0 A and -24.0 V at 10.0 A a second after the call before, and
\* a consumer that asks a millisecond less than half a minute, or half a minute,
\* after the call before
AccessReadings ==
    [ Samples |-> { [voltage |-> float32V(24000), current |-> float32A(10000)],
                    [voltage |-> 0 - float32V(24000), current |-> float32A(10000)] },
      Elapsed |-> {1000},
      Waits |-> {29999, 30000} ]

\* a resistance average of five values that were all 2^-5 Ohm
AccessAverages ==
    { [ count |-> 5, average |-> 32768, min |-> 32768, max |-> 32768, last |-> 32768 ] }

\* the battery guard as constructed, or after five resistances
InitAccess ==
    /\ init_PowerLimiter({BaseConfig})
    /\ ~producing
    /\ guard \in {BatteryGuardConstructed}
                 \cup { [BatteryGuard EXCEPT !.resistanceFromCalcAVG = a] :
                          a \in AccessAverages }
    /\ gk = NoCall
    /\ init_PowerMeter

NextAccess ==
    \/ updateSettings
    \/ updateBatteryValues(AccessReadings)
    \/ getOpenCircuitVoltage_call(AccessReadings)

SpecAccess == InitAccess /\ [][NextAccess]_vars

\* resistance averages of three, of four and of five values that were all
\* 2^-6 Ohm
FreshAverages ==
    { [ count |-> n, average |-> 16384, min |-> 16384, max |-> 16384, last |-> 16384 ] :
        n \in {3, 4, 5} }

\* the battery guard after three, four or five resistances
InitFresh ==
    /\ init_PowerLimiter({BaseConfig})
    /\ ~producing
    /\ init_BatteryGuard(FreshAverages)
    /\ init_PowerMeter

NextFresh == updateBatteryValues(GateReadings)

SpecFresh == InitFresh /\ [][NextFresh]_vars

\* 24.0 V and 24.0625 V, both at 10.0 A: two points of one current
EqualCurrentReadings ==
    [ Samples |-> { [voltage |-> float32V(24000), current |-> float32A(10000)],
                    [voltage |-> float32V(24000) + 32768, current |-> float32A(10000)] },
      Elapsed |-> {1000, 30000} ]

NextEqualCurrent == updateBatteryValues(EqualCurrentReadings)

SpecEqualCurrent == InitSettle /\ [][NextEqualCurrent]_vars

\* the power meter enabled and disabled
GatingConfigs ==
    { BaseConfig, [BaseConfig EXCEPT !.PowerMeter_Enabled = FALSE] }

InitGating == InitWith(GatingConfigs)

TickGating == loop(CommandReadings)

NextGating == TickGating \/ InverterProducing \/ SetPowerLimiterEnabled

SpecGating == InitGating /\ [][NextGating]_vars

\* the power meter fed by MQTT, by an SDM meter (phase 1 or the total), and
\* disabled
MeterConfigs ==
    { BaseConfig,
      [BaseConfig EXCEPT !.PowerMeter_Source = 1],
      [BaseConfig EXCEPT !.PowerMeter_Source = 2],
      [BaseConfig EXCEPT !.PowerMeter_Enabled = FALSE] }

\* 10 s and 30.001 s between calls; powers of 100 W and 250.5 W
MeterReadings ==
    [ Waits |-> {10000, 30001},
      Topics |-> {1, 2},
      Payloads |-> {"100.0"},
      SdmReadings |-> {2505} ]

InitMeter == InitWith(MeterConfigs)

NextMeter ==
    \/ onMqttMessage(MeterReadings)
    \/ PowerMeter_loop(MeterReadings)
    \/ calcPowerLimit_meter(MeterReadings)

SpecMeter == InitMeter /\ [][NextMeter]_vars

\* the limiter with the readings of the thresholds
InitDischarge == InitWith(DischargeConfigs)

TickDischarge == loop(DischargeReadings)

NextDischarge == TickDischarge \/ InverterProducing \/ SetPowerLimiterEnabled

SpecDischarge == InitDischarge /\ [][NextDischarge]_vars

\* the limiter with the readings of the shutdown, its inverter always within
\* reach; loop() is called for ever, and time and again at a moment at which
\* the initial checks let it pass
InitShutdown == InitWith(ShutdownConfigs)

TickShutdown == loop(ShutdownReadings)

TickExecuted == TickShutdown /\ ticks' # ticks

NextShutdown == TickShutdown \/ InverterProducing \/ SetPowerLimiterEnabled

SpecShutdown == InitShutdown /\ [][NextShutdown]_vars /\ WF_vars(TickExecuted)

-----------------------------------------------------------------------------
(* Properties of the power limits and commands, under Spec *)

HasCmd(type) == \E i \in DOMAIN tk.cmds : tk.cmds[i].type = type

\* C1: every absolute power limit transmitted to the inverter lies between
\* LowerPowerLimit and UpperPowerLimit; a value below LowerPowerLimit is never
\* transmitted as a limit.
C1_LimitWithinBounds ==
    \A i \in DOMAIN tk.cmds :
        tk.cmds[i].type = "limit" =>
            /\ config.PowerLimiter_LowerPowerLimit <= tk.cmds[i].value
            /\ tk.cmds[i].value <= config.PowerLimiter_UpperPowerLimit

\* a tick that computed a value below the floor and one above it has transmitted
C1_Witness ==
    /\ tk.path = "control"
    /\ HasCmd("limit")
    /\ tk.calc < config.PowerLimiter_LowerPowerLimit
    /\ inverterLimit > config.PowerLimiter_LowerPowerLimit

\* C2: with a power-meter reading older than 30000 ms calcPowerLimit returns
\* LowerPowerLimit, whatever the load, the last requested limit, the solar power,
\* the efficiency and the solar-only flag are.
C2_StaleMeterReturnsLower ==
    (tk.path = "control" /\ tk.stale) => tk.calc = config.PowerLimiter_LowerPowerLimit

C2_Witness ==
    /\ tk.path = "control"
    /\ tk.stale
    /\ ~tk.solarOnly
    /\ tk.limitBefore > config.PowerLimiter_LowerPowerLimit
    /\ tk.calc = config.PowerLimiter_LowerPowerLimit

\* C3: a tick with a stale power meter leaves the inverter either with
\* LowerPowerLimit as the limit in effect or with a stop command; stated for the
\* ticks that find a producing inverter holding a limit above LowerPowerLimit.
C3_StaleMeterNeverHoldsHighLimit ==
    (/\ tk.path = "control"
     /\ tk.stale
     /\ producing
     /\ tk.limitBefore > config.PowerLimiter_LowerPowerLimit) =>
        \/ inverterLimit = config.PowerLimiter_LowerPowerLimit
        \/ HasCmd("stop")

\* C7, as claimed: in solar-only mode calcPowerLimit never returns more than the
\* panel power times the inverter efficiency (0 when direct solar is unusable),
\* on every path.
C7_SolarOnlyNeverAboveSolar_AllPaths ==
    (tk.path = "control" /\ tk.solarOnly) => 100 * tk.calc <= tk.solar100

\* C7, amended: in solar-only mode, with a fresh meter reading outside the reuse
\* band, calcPowerLimit never returns more than the efficiency-adjusted solar
\* power the code computes.
C7_SolarOnlyCapOnComputedPath ==
    (tk.path = "control" /\ tk.solarOnly /\ ~tk.stale /\ ~tk.inBand) =>
        tk.calc <= tk.adjSolar

\* the cap is what decided the value: the demand was above the solar power
C7_Witness ==
    /\ tk.path = "control"
    /\ tk.solarOnly
    /\ ~tk.stale
    /\ ~tk.inBand
    /\ tk.canUse
    /\ tk.calc = tk.adjSolar
    /\ tk.adjSolar < config.PowerLimiter_UpperPowerLimit

\* C8, as claimed: for a fresh load reading within the reuse band calcPowerLimit
\* returns what the previous call of calcPowerLimit returned.
C8_ReuseReturnsPreviousReturn ==
    (tk.path = "control" /\ ~tk.stale /\ tk.inBand /\ tk.calcBefore # << >>) =>
        tk.calc = tk.calcBefore[1]

\* C8, amended: for a fresh load reading within the reuse band calcPowerLimit
\* returns the limit last transmitted to the inverter (0 before the first one).
C8_ReuseReturnsLastTransmitted ==
    (tk.path = "control" /\ ~tk.stale /\ tk.inBand) => tk.calc = tk.limitBefore

\* a reuse after a tick whose computed value was not transmitted
C8_Witness ==
    /\ tk.path = "control"
    /\ ~tk.stale
    /\ tk.inBand
    /\ tk.calcBefore # << >>
    /\ tk.limitBefore > 0
    /\ tk.calc = tk.limitBefore
    /\ tk.calcBefore[1] # tk.limitBefore

\* C9, as claimed: after a tick that reached the command step the limit in
\* effect at the inverter is not less than the ramped direct solar-feed power.
C9_LimitInEffectCoversSolarFeed ==
    tk.path = "control" => inverterLimit >= tk.mppt

\* C9, amended: every limit a tick transmits is not less than the ramped direct
\* solar-feed power of that tick.
C9_TransmittedLimitCoversSolarFeed ==
    \A i \in DOMAIN tk.cmds :
        (tk.path = "control" /\ tk.cmds[i].type = "limit") => tk.cmds[i].value >= tk.mppt

\* the solar feed, above the computed value, is what was transmitted
C9_Witness ==
    /\ tk.path = "control"
    /\ HasCmd("limit")
    /\ tk.mppt > tk.calc
    /\ inverterLimit = tk.mppt

\* C10: no start, stop or limit command is sent while _plState is SHUTDOWN.
C10_NoCommandInShutdown ==
    \A i \in DOMAIN tk.cmds : tk.cmds[i].plState = "ACTIVE"

\* a tick that found the limiter in SHUTDOWN and sent a command
C10_Witness ==
    /\ tk.path = "control"
    /\ tk.plBefore = "SHUTDOWN"
    /\ tk.cmds # << >>

-----------------------------------------------------------------------------
(* Properties of the discharge flag, under SpecDischarge *)

\* C4: after a tick at which the stop threshold is reached
\* _batteryDischargeEnabled is false.
C4_StopDisablesDischarge ==
    (tk.path = "control" /\ tk.stop) => ~batteryDischargeEnabled

\* C5, as claimed, with the voltage start threshold not reached: under
\* EMPTY_WHEN_FULL, once a tick with the SoC at or below the stop threshold has
\* switched discharge off, it stays off at every tick with the SoC strictly
\* between the thresholds, and is on after a tick that reaches the start
\* threshold.
C5_LatchHoldsBetweenThresholds ==
    /\ (/\ tk.path = "control"
        /\ config.PowerLimiter_BatteryDrainStategy = "EMPTY_WHEN_FULL"
        /\ tk.wasLatched
        /\ tk.socBetween
        /\ ~tk.start) => ~batteryDischargeEnabled
    /\ (/\ tk.path = "control"
        /\ config.PowerLimiter_BatteryDrainStategy = "EMPTY_WHEN_FULL"
        /\ tk.start) => batteryDischargeEnabled

\* C5, amended: the flag stays off between the thresholds as long as direct
\* solar power can be used and the voltage start threshold is not reached; a
\* tick at which direct solar power cannot be used and no stop threshold is
\* reached switches it on again, as does a tick that reaches the start threshold.
C5_LatchHoldsWhileSolarUsable ==
    /\ (/\ tk.path = "control"
        /\ config.PowerLimiter_BatteryDrainStategy = "EMPTY_WHEN_FULL"
        /\ tk.wasLatched
        /\ tk.socBetween
        /\ tk.canUse
        /\ ~tk.start) => ~batteryDischargeEnabled
    /\ (/\ tk.path = "control"
        /\ config.PowerLimiter_BatteryDrainStategy = "EMPTY_WHEN_FULL"
        /\ tk.wasLatched
        /\ tk.socBetween
        /\ ~tk.canUse
        /\ ~tk.stop) => batteryDischargeEnabled
    /\ (/\ tk.path = "control"
        /\ config.PowerLimiter_BatteryDrainStategy = "EMPTY_WHEN_FULL"
        /\ tk.start) => batteryDischargeEnabled

\* the latch holding at a SoC between the thresholds
C5_Witness ==
    /\ tk.path = "control"
    /\ config.PowerLimiter_BatteryDrainStategy = "EMPTY_WHEN_FULL"
    /\ tk.wasLatched
    /\ tk.socBetween
    /\ tk.canUse
    /\ ~tk.stop
    /\ ~tk.start
    /\ ~batteryDischargeEnabled

\* C6, as claimed: after a tick at which direct solar power cannot be used or the
\* strategy is EMPTY_AT_NIGHT, _batteryDischargeEnabled is true.
C6_ForceEnableRegardlessOfThresholds ==
    (/\ tk.path = "control"
     /\ (~tk.canUse \/ config.PowerLimiter_BatteryDrainStategy = "EMPTY_AT_NIGHT"))
        => batteryDischargeEnabled

\* C6, amended: ... and at which the stop threshold is not reached.
C6_ForceEnableUnlessStopReached ==
    (/\ tk.path = "control"
     /\ ~tk.stop
     /\ (~tk.canUse \/ config.PowerLimiter_BatteryDrainStategy = "EMPTY_AT_NIGHT"))
        => batteryDischargeEnabled

\* forced on under EMPTY_AT_NIGHT with usable solar power and no start threshold reached
C6_Witness ==
    /\ tk.path = "control"
    /\ config.PowerLimiter_BatteryDrainStategy = "EMPTY_AT_NIGHT"
    /\ tk.canUse
    /\ ~tk.stop
    /\ ~tk.start
    /\ batteryDischargeEnabled

-----------------------------------------------------------------------------
(* Properties of the shutdown and of the ticks that return early *)

\* C11: _plState changes to SHUTDOWN only in a tick that finds the limiter
\* disabled and the inverter not producing; a tick that gets to a reachable
\* inverter with the limiter disabled, _plState not SHUTDOWN and the inverter
\* producing sends a stop command and no other command, and leaves _plState,
\* _batteryDischargeEnabled and _lastRequestedPowerLimit as they are.
C11_ShutdownOnlyWhenStopped ==
    [][ /\ (plState # "SHUTDOWN" /\ plState' = "SHUTDOWN") =>
              (ticks' # ticks /\ ~config.PowerLimiter_Enabled /\ ~producing)
        /\ (/\ ticks' # ticks
            /\ tk'.inverter = "reachable"
            /\ ~config.PowerLimiter_Enabled
            /\ plState # "SHUTDOWN"
            /\ producing) =>
              (/\ \E i \in DOMAIN tk'.cmds : tk'.cmds[i].type = "stop"
               /\ \A i \in DOMAIN tk'.cmds : tk'.cmds[i].type = "stop"
               /\ plState' = plState
               /\ batteryDischargeEnabled' = batteryDischargeEnabled
               /\ lastRequestedPowerLimit' = lastRequestedPowerLimit) ]_vars

\* a disabled limiter that held a limit and the discharge flag has sent a stop
C11_Witness ==
    /\ tk.path = "shutdown"
    /\ HasCmd("stop")
    /\ ~config.PowerLimiter_Enabled
    /\ producing
    /\ plState = "ACTIVE"
    /\ batteryDischargeEnabled
    /\ lastRequestedPowerLimit > 0

\* C12, under SpecShutdown, where ticks with a reachable inverter keep being
\* executed: once the inverter of a disabled limiter has stopped producing,
\* _plState becomes SHUTDOWN unless the limiter is enabled again or the inverter
\* produces again; and _plState stays SHUTDOWN for as long as the limiter stays
\* disabled.
C12_ShutdownEventually ==
    /\ []( (/\ ~config.PowerLimiter_Enabled
            /\ ~producing
            /\ ticks < MaxTicks) =>
              <>(\/ plState = "SHUTDOWN"
                 \/ config.PowerLimiter_Enabled
                 \/ producing) )
    /\ [][ (plState = "SHUTDOWN" /\ ~config'.PowerLimiter_Enabled) =>
              plState' = "SHUTDOWN" ]_vars

\* the tick after the one that sent the stop finds the inverter off
C12_Witness ==
    /\ tk.path = "shutdown"
    /\ tk.cmds = << >>
    /\ ~config.PowerLimiter_Enabled
    /\ ~producing
    /\ plState = "SHUTDOWN"
    /\ ticks >= 2

\* C13: a tick that gets to a reachable inverter with statistics at most 10 s
\* old and finds the limiter enabled and _plState SHUTDOWN leaves _plState
\* ACTIVE, whatever it reads besides; no step taken while the limiter is enabled
\* makes _plState SHUTDOWN.
C13_ShutdownToActive ==
    [][ /\ (/\ ticks' # ticks
            /\ tk'.inverter = "reachable"
            /\ tk'.statsAge <= 10000
            /\ config.PowerLimiter_Enabled
            /\ plState = "SHUTDOWN") => plState' = "ACTIVE"
        /\ (config.PowerLimiter_Enabled /\ plState # "SHUTDOWN") =>
              plState' # "SHUTDOWN" ]_vars

\* back to ACTIVE with a stale power meter and the stop threshold reached
C13_Witness ==
    /\ tk.path = "control"
    /\ tk.plBefore = "SHUTDOWN"
    /\ plState = "ACTIVE"
    /\ tk.stale
    /\ tk.stop
    /\ ~producing

\* C14: a tick that passes the initial checks and finds no inverter, or one out
\* of reach, sends no command and changes nothing but _lastLoop: _plState,
\* _batteryDischargeEnabled, _mpptDirectFeedToGridPercent,
\* _lastRequestedPowerLimit and _lastCommandSent are as before, so that the next
\* tick looks for the inverter again.
C14_UnreachableIsNoOp ==
    [][ (ticks' # ticks /\ tk'.inverter \in {"nullptr", "unreachable"}) =>
          (/\ tk'.cmds = << >>
           /\ plState' = plState
           /\ batteryDischargeEnabled' = batteryDischargeEnabled
           /\ mpptDirectFeedToGridPercent' = mpptDirectFeedToGridPercent
           /\ lastRequestedPowerLimit' = lastRequestedPowerLimit
           /\ lastCommandSent' = lastCommandSent
           /\ inverterLimit' = inverterLimit) ]_vars

\* the inverter was out of reach for a limiter that had ramped, sent a limit and
\* enabled the discharge
C14_Witness ==
    /\ tk.path = "unreachable"
    /\ tk.inverter = "unreachable"
    /\ config.PowerLimiter_Enabled
    /\ mpptDirectFeedToGridPercent > 0
    /\ lastRequestedPowerLimit > 0

\* C15, as claimed: a tick that gets to an inverter whose statistics are older
\* than 10 s sends no command and changes neither _plState nor
\* _batteryDischargeEnabled nor the ramp nor _lastRequestedPowerLimit, the
\* limiter being enabled or not.
C15_StaleStatsIsNoOp ==
    [][ (ticks' # ticks /\ tk'.statsAge > 10000) =>
          (/\ tk'.cmds = << >>
           /\ plState' = plState
           /\ batteryDischargeEnabled' = batteryDischargeEnabled
           /\ mpptDirectFeedToGridPercent' = mpptDirectFeedToGridPercent
           /\ lastRequestedPowerLimit' = lastRequestedPowerLimit) ]_vars

\* C15, amended: that holds of the ticks that find the limiter enabled, or
\* disabled with _plState SHUTDOWN; a tick that finds it disabled with _plState
\* not SHUTDOWN stops a producing inverter and makes _plState SHUTDOWN for one
\* that does not produce, whatever the age of the statistics.
C15_StaleStatsIsNoOpUnlessShuttingDown ==
    [][ /\ (/\ ticks' # ticks
            /\ tk'.statsAge > 10000
            /\ (config.PowerLimiter_Enabled \/ plState = "SHUTDOWN")) =>
              (/\ tk'.cmds = << >>
               /\ plState' = plState
               /\ batteryDischargeEnabled' = batteryDischargeEnabled
               /\ mpptDirectFeedToGridPercent' = mpptDirectFeedToGridPercent
               /\ lastRequestedPowerLimit' = lastRequestedPowerLimit)
        /\ (/\ ticks' # ticks
            /\ tk'.statsAge > 10000
            /\ ~config.PowerLimiter_Enabled
            /\ plState # "SHUTDOWN") =>
              (/\ producing => (\E i \in DOMAIN tk'.cmds : tk'.cmds[i].type = "stop")
               /\ ~producing => plState' = "SHUTDOWN") ]_vars

\* stale statistics met an enabled limiter that had ramped and sent a limit
C15_Witness ==
    /\ tk.path = "statsTooOld"
    /\ tk.statsAge > 10000
    /\ config.PowerLimiter_Enabled
    /\ plState = "ACTIVE"
    /\ mpptDirectFeedToGridPercent > 0
    /\ lastRequestedPowerLimit > 0

-----------------------------------------------------------------------------
(* Properties of the resistance estimate of the battery guard *)

\* a call of updateBatteryValues
Called == Len(gk'.fed) # Len(gk.fed)

\* the reading the call was given
Fed == gk'.fed[Len(gk'.fed)]

\* the pending sample and the reading are no more than 5 mV and 0.2 A apart
WithinTolerance ==
    /\ abs(guard.pFirstVolt.first - Fed.voltage) * 1000 <= 5 * 524288
    /\ abs(guard.pFirstVolt.second - Fed.current) * 5 <= 1048576

\* p is the float nearest to the mean of a and b
IsMean(p, a, b) == abs(2 * p - (a + b)) <= 1

\* the window and the resistance average are as they were
WindowAndAverageUnchanged ==
    /\ guard'.minMaxAvailable = guard.minMaxAvailable
    /\ guard'.pMinVolt = guard.pMinVolt
    /\ guard'.pMaxVolt = guard.pMaxVolt
    /\ guard'.lastMinMaxMillis = guard.lastMinMaxMillis
    /\ guard'.resistanceFromCalcAVG = guard.resistanceFromCalcAVG

\* C16: a reading that finds a pending sample no more than 5 mV and 0.2 A away
\* is averaged with it into one point and the pending slot is cleared; any other
\* reading becomes the pending sample, no point is emitted, and the min/max
\* window and the resistance average are unchanged.
C16_SettlePair ==
    [][ Called =>
          IF guard.firstOfTwoAvailable /\ WithinTolerance
          THEN /\ ~guard'.firstOfTwoAvailable
               /\ Len(gk'.point) = 1
               /\ IsMean(gk'.point[1].first, guard.pFirstVolt.first, Fed.voltage)
               /\ IsMean(gk'.point[1].second, guard.pFirstVolt.second, Fed.current)
          ELSE /\ guard'.firstOfTwoAvailable
               /\ guard'.pFirstVolt = [first |-> Fed.voltage, second |-> Fed.current]
               /\ gk'.point = << >>
               /\ WindowAndAverageUnchanged ]_vars

\* a pair 5 mV and 0.2 A apart made a point, after a reading that did not match
C16_Witness ==
    /\ Len(gk.fed) >= 3
    /\ gk.point # << >>
    /\ gk.fed[Len(gk.fed)].voltage # gk.fed[Len(gk.fed) - 1].voltage
    /\ gk.fed[Len(gk.fed)].current # gk.fed[Len(gk.fed) - 1].current
    /\ ~guard.firstOfTwoAvailable

\* the resistance average took the candidate
Added(r) ==
    /\ guard'.resistanceFromCalcAVG.count = guard.resistanceFromCalcAVG.count + 1
    /\ guard'.resistanceFromCalcAVG.last = r

\* C17, as claimed: a resistance average of at least 10 values takes a candidate r
\* iff average / 2 <= r <= average * 2 and is unchanged otherwise; one of fewer
\* than 10 values takes every candidate.
C17_GateInclusive ==
    [][ (Called /\ gk'.resistor # << >>) =>
          LET r == gk'.resistor[1]
              a == guard.resistanceFromCalcAVG
          IN  IF a.count < 10 THEN Added(r)
              ELSE IF 2 * r >= a.average /\ r <= 2 * a.average THEN Added(r)
              ELSE guard'.resistanceFromCalcAVG = a ]_vars

\* C17, amended: ... iff average / 2 < r < average * 2 ...
C17_GateExclusive ==
    [][ (Called /\ gk'.resistor # << >>) =>
          LET r == gk'.resistor[1]
              a == guard.resistanceFromCalcAVG
          IN  IF a.count < 10 THEN Added(r)
              ELSE IF 2 * r > a.average /\ r < 2 * a.average THEN Added(r)
              ELSE guard'.resistanceFromCalcAVG = a ]_vars

\* a candidate of twice the average met an average of 10 values, which is unchanged
C17_Witness ==
    /\ gk.resistor # << >>
    /\ guard.resistanceFromCalcAVG.count = 10
    /\ gk.resistor[1] = 2 * guard.resistanceFromCalcAVG.average

\* C18: a call closes the window, or computes a resistance, only 30000 ms or
\* more after the call that opened it; a point that comes earlier leaves the
\* window open, its start and the resistance average as they are, and is the new
\* minimum or maximum if its voltage is below or above the one held.
C18_WindowLasts30s ==
    [][ Called =>
          /\ (gk'.closed \/ gk'.resistor # << >>) =>
                gk'.millis - guard'.lastMinMaxMillis >= 30000
          /\ (/\ gk'.point # << >>
              /\ guard.minMaxAvailable
              /\ gk'.millis - guard.lastMinMaxMillis < 30000) =>
                (/\ guard'.minMaxAvailable
                 /\ guard'.lastMinMaxMillis = guard.lastMinMaxMillis
                 /\ guard'.resistanceFromCalcAVG = guard.resistanceFromCalcAVG
                 /\ guard'.pMinVolt = IF gk'.point[1].first < guard.pMinVolt.first
                                      THEN gk'.point[1] ELSE guard.pMinVolt
                 /\ guard'.pMaxVolt = IF gk'.point[1].first > guard.pMaxVolt.first
                                      THEN gk'.point[1] ELSE guard.pMaxVolt) ]_vars

\* a window closed 30000 ms after it was opened
C18_Witness ==
    /\ gk.closed
    /\ gk.millis - guard.lastMinMaxMillis = 30000
    /\ guard.pMaxVolt.first > guard.pMinVolt.first

\* C19: after a call that closes the window _minMaxAvailable is false; a point
\* that finds it false opens the window with itself as minimum and as maximum
\* and the time of the call as start; the resistance average never loses a
\* value, and changes only in a call that closes a window whose maximum and
\* minimum are at least 50 mV apart.
C19_CloseResetsWindow ==
    [][ Called =>
          /\ gk'.closed => ~guard'.minMaxAvailable
          /\ (gk'.point # << >> /\ ~guard.minMaxAvailable) =>
                (/\ guard'.pMinVolt = gk'.point[1]
                 /\ guard'.pMaxVolt = gk'.point[1]
                 /\ guard'.lastMinMaxMillis = gk'.millis
                 /\ guard'.minMaxAvailable)
          /\ guard'.resistanceFromCalcAVG.count >= guard.resistanceFromCalcAVG.count
          /\ guard'.resistanceFromCalcAVG # guard.resistanceFromCalcAVG =>
                (/\ gk'.closed
                 /\ (guard'.pMaxVolt.first - guard'.pMinVolt.first) * 1000
                       >= 50 * 524288) ]_vars

\* three pairs: the second closed the window without a resistance, the third
\* opened it again
C19_Witness ==
    /\ Len(gk.fed) = 6
    /\ gk.fed[1].voltage = gk.fed[2].voltage
    /\ gk.fed[3].voltage = gk.fed[4].voltage
    /\ gk.fed[5].voltage = gk.fed[6].voltage
    /\ gk.fed[4].voltage # gk.fed[2].voltage
    /\ guard.minMaxAvailable
    /\ guard.lastMinMaxMillis = gk.millis
    /\ guard.pMinVolt = guard.pMaxVolt
    /\ guard.resistanceFromCalcAVG.count = 0

\* C20: after 24.00 V at 10.0 A twice and, 30 s or more later, 24.05 V at 8.0 A
\* twice, given to a battery guard that had no reading yet, the window is closed
\* with 24.00 V at 10.0 A as minimum and 24.05 V at 8.0 A as maximum, and the
\* resistance average holds one value, 0.025 Ohm.
C20_Scenario ==
    LET first == [voltage |-> float32V(24000), current |-> float32A(10000)]
        second == [voltage |-> float32V(24050), current |-> float32A(8000)]
        given(i) == [voltage |-> gk.fed[i].voltage, current |-> gk.fed[i].current]
    IN  (/\ Len(gk.fed) = 4
         /\ given(1) = first /\ given(2) = first
         /\ given(3) = second /\ given(4) = second
         /\ gk.fed[3].at - gk.fed[2].at >= 30000) =>
            /\ gk.closed
            /\ ~guard.minMaxAvailable
            /\ guard.pMinVolt = [first |-> first.voltage, second |-> first.current]
            /\ guard.pMaxVolt = [first |-> second.voltage, second |-> second.current]
            /\ guard.resistanceFromCalcAVG.count = 1
            /\ abs(guard.resistanceFromCalcAVG.average * 1000 - 25 * 1048576) <= 1000

-----------------------------------------------------------------------------
(* Properties of the accessors and of updateBatteryValues *)

\* a call of the accessor named
Asked(accessor) == gk'.queries # gk.queries /\ gk'.asked = accessor

\* C21: getInternalResistance returns the weighted average iff more than 4
\* resistances were accepted, otherwise the configured resistance iff that is
\* not zero, otherwise nothing; it never changes the estimator's state.
C21_InternalResistance ==
    [][ Asked("getInternalResistance") =>
          /\ IF guard.resistanceFromCalcAVG.count > 4
             THEN gk'.answer = << guard.resistanceFromCalcAVG.average >>
             ELSE IF guard.resistanceFromConfig # 0
             THEN gk'.answer = << guard.resistanceFromConfig >>
             ELSE gk'.answer = << >>
          /\ guard' = guard ]_vars

\* the average of five values was returned although a resistance is configured
C21_Witness ==
    /\ gk.asked = "getInternalResistance"
    /\ guard.resistanceFromCalcAVG.count = 5
    /\ guard.resistanceFromConfig # 0
    /\ gk.answer = << guard.resistanceFromCalcAVG.average >>
    /\ gk.answer # << guard.resistanceFromConfig >>

\* C22: getOpenCircuitVoltage returns the average of the open circuit voltage
\* iff there is at least one sample of it and the last one was taken less than
\* 30000 ms before the query, and then leaves the not-available counter as it
\* is; otherwise it returns nothing and adds exactly one to that counter.
C22_OpenCircuitVoltageStaleness ==
    [][ Asked("getOpenCircuitVoltage") =>
          IF /\ guard.openCircuitVoltageAVG.count > 0
             /\ gk.ocvAt # << >>
             /\ gk'.millis - gk.ocvAt[1] < 30000
          THEN /\ gk'.answer = << guard.openCircuitVoltageAVG.average >>
               /\ guard' = guard
          ELSE /\ gk'.answer = << >>
               /\ guard' = [guard EXCEPT !.notAvailableCounter = @ + 1] ]_vars

\* a value was returned 29999 ms after the last sample, after a query that had
\* found the sample before it too old
C22_Witness ==
    /\ gk.asked = "getOpenCircuitVoltage"
    /\ gk.answer # << >>
    /\ gk.ocvAt # << >>
    /\ gk.millis - gk.ocvAt[1] = 29999
    /\ guard.notAvailableCounter = 1

\* C23, as claimed: the open circuit voltage of a call is computed with the
\* resistance the accessor had before the call, so that the call which brings
\* the count of resistances from 4 to 5 computes none.
C23_ResistanceFromBeforeTheCall ==
    [][ (Called /\ guard.useBatteryGuard /\ Fed.voltage >= 0) =>
          guard'.openCircuitVoltageAVG =
             IF guard.resistanceFromCalcAVG.count > 4
             THEN addNumber(guard.openCircuitVoltageAVG,
                            openCircuitVoltage(Fed.voltage, Fed.current,
                                               guard.resistanceFromCalcAVG.average), 5)
             ELSE guard.openCircuitVoltageAVG ]_vars

\* C23, amended: the open circuit voltage of a call is computed with the
\* resistance the accessor has after the resistance step of that call, the
\* average with the resistance the call accepted in it, so that the call which
\* brings the count of resistances from 4 to 5 computes one.
C23_ResistanceOfTheSameCall ==
    [][ (Called /\ guard.useBatteryGuard /\ Fed.voltage >= 0) =>
          guard'.openCircuitVoltageAVG =
             IF guard'.resistanceFromCalcAVG.count > 4
             THEN addNumber(guard.openCircuitVoltageAVG,
                            openCircuitVoltage(Fed.voltage, Fed.current,
                                               guard'.resistanceFromCalcAVG.average), 5)
             ELSE guard.openCircuitVoltageAVG ]_vars

\* the call that accepted the fifth resistance computed the first open circuit
\* voltage
C23_Witness ==
    /\ gk.result
    /\ guard.resistanceFromCalcAVG.count = 5
    /\ guard.openCircuitVoltageAVG.count = 1
    /\ gk.ocvAt = << gk.millis >>

\* C24: a call of updateBatteryValues made while the battery guard is disabled
\* or with a voltage below zero changes none of the estimator's members; every
\* other call adds the voltage to the plain voltage average exactly once.
C24_UpdateGuard ==
    [][ Called =>
          IF ~guard.useBatteryGuard \/ Fed.voltage < 0
          THEN guard' = guard
          ELSE guard'.battVoltageAVG = addNumber(guard.battVoltageAVG, Fed.voltage, 5)
      ]_vars

\* of three readings the first came before init() and the third was below
\* zero: the voltage average holds the second alone
C24_Witness ==
    /\ Len(gk.fed) = 3
    /\ gk.fed[1].voltage > 0
    /\ gk.fed[2].voltage > 0
    /\ gk.fed[3].voltage < 0
    /\ guard.useBatteryGuard
    /\ guard.battVoltageAVG.count = 1
    /\ guard.battMillis = gk.fed[2].at

-----------------------------------------------------------------------------
(* Properties of the solar ramp and of setNewPowerLimit *)

\* the last executed tick reached the ramp step and read the absorption phase
Absorbed == tk.path = "control" /\ tk.cs = 4

\* the last executed tick returned before the ramp step, or read another phase
Interrupted ==
    \/ tk.path \notin {"init", "skipped", "control"}
    \/ tk.path = "control" /\ tk.cs # 4

\* C25, under SpecRamp, where ticks keep being executed:
\* _mpptDirectFeedToGridPercent always lies between 0 % and 90 %; a tick that
\* reaches the ramp step raises it by 1 %, up to 90 %, when the charger is in the
\* absorption phase (CS 4) and lowers it by 1 %, down to 0 %, otherwise; every
\* other step leaves it as it is.  When every tick from some tick on reaches the
\* ramp step in the absorption phase, it gets to 90 % as soon as the ticks
\* suffice, and a tick in the absorption phase leaves it at 90 %.
C25_SolarRamp ==
    /\ [](mpptDirectFeedToGridPercent >= 0 /\ mpptDirectFeedToGridPercent <= 90)
    /\ [][ IF ticks' # ticks /\ tk'.path = "control"
           THEN IF tk'.cs = 4
                THEN mpptDirectFeedToGridPercent' =
                        (IF mpptDirectFeedToGridPercent >= 90 THEN 90
                         ELSE mpptDirectFeedToGridPercent + 1)
                ELSE mpptDirectFeedToGridPercent' =
                        (IF mpptDirectFeedToGridPercent <= 0 THEN 0
                         ELSE mpptDirectFeedToGridPercent - 1)
           ELSE mpptDirectFeedToGridPercent' = mpptDirectFeedToGridPercent ]_vars
    /\ \A k \in 0 .. (MaxTicks - 1) :
          (ticks = k /\ mpptDirectFeedToGridPercent + (MaxTicks - k) >= 90)
             ~> (\/ mpptDirectFeedToGridPercent = 90
                 \/ ticks > k /\ Interrupted)
    /\ [][ (mpptDirectFeedToGridPercent = 90 /\ ticks' # ticks /\ Absorbed') =>
              mpptDirectFeedToGridPercent' = 90 ]_vars

\* the third tick, one in the absorption phase, left the fraction at 90 %, of
\* 100 W of solar power 90 W
C25_Witness ==
    /\ ticks = 3
    /\ Absorbed
    /\ mpptDirectFeedToGridPercent = 90
    /\ tk.mppt = 90

\* the limit the last tick handed to setNewPowerLimit
Handed == IF tk.calc > tk.mppt THEN tk.calc ELSE tk.mppt

\* a tick that called setNewPowerLimit
Set == ticks' # ticks /\ tk'.path = "control"

\* the places of the commands of a type among the commands of the last tick
Places(type) == { i \in DOMAIN tk.cmds : tk.cmds[i].type = type }

\* C26: setNewPowerLimit sends a start command iff the inverter is not producing
\* and the new limit is above LowerPowerLimit, and sends it before the
\* power-limit command of that call; no start command goes with a limit at or
\* below LowerPowerLimit.
C26_StartCommand ==
    [][ Set =>
          /\ (Places("start")' # {}) <=>
                (~producing /\ Handed' > config.PowerLimiter_LowerPowerLimit)
          /\ Cardinality(Places("start")') <= 1
          /\ \A i \in Places("start")', j \in Places("limit")' : i < j ]_vars

\* an inverter that was off was started and then given a limit
C26_Witness ==
    /\ tk.path = "control"
    /\ Len(tk.cmds) = 2
    /\ tk.cmds[1].type = "start"
    /\ tk.cmds[2].type = "limit"
    /\ tk.cmds[2].value = Handed
    /\ ~producing

C28_NoRedundantLimit ==
    /\ [](lastRequestedPowerLimit = inverterLimit)
    /\ [][ (ticks' # ticks) => \A i \in Places("limit")' :
              /\ tk'.cmds[i].value # lastRequestedPowerLimit
              /\ tk'.cmds[i].value # inverterLimit
              /\ tk'.cmds[i].value > config.PowerLimiter_LowerPowerLimit
              /\ tk'.cmds[i].value < config.PowerLimiter_UpperPowerLimit
              /\ tk'.cmds[i].value = lastRequestedPowerLimit' ]_vars
    /\ [][ lastRequestedPowerLimit' # lastRequestedPowerLimit =>
              (ticks' # ticks /\ Places("limit")' # {}) ]_vars
    /\ [][ (ticks' # ticks) => Cardinality(Places("limit")') <= 1 ]_vars

\* a tick that was handed the limit transmitted last transmitted nothing
C28_Witness ==
    /\ tk.path = "control"
    /\ ~tk.inBand
    /\ Handed = lastRequestedPowerLimit
    /\ Handed = tk.limitBefore
    /\ Handed > config.PowerLimiter_LowerPowerLimit
    /\ Handed < config.PowerLimiter_UpperPowerLimit
    /\ tk.cmds = << >>

-----------------------------------------------------------------------------
(* Properties of calcPowerLimit and of the thresholds *)

\* the smaller of two
Min(a, b) == IF a < b THEN a ELSE b

\* C29: for a meter reading no older than 30 s and a load outside the reuse
\* band, calcPowerLimit returns the smaller of load + (the last requested limit,
\* if the inverter is behind the meter) - TargetPowerConsumption and a cap: the
\* UpperPowerLimit, or in solar-only mode the smaller of that and the solar
\* power adjusted by the efficiency; the result is not clamped from below.
C29_CalcPowerLimit ==
    (/\ tk.path = "calcPowerLimit"
     /\ tk.meterAge <= 30000
     /\ \/ round(tk.total) < config.PowerLimiter_TargetPowerConsumption
                                - config.PowerLimiter_TargetPowerConsumptionHysteresis
        \/ round(tk.total) > config.PowerLimiter_TargetPowerConsumption
                                + config.PowerLimiter_TargetPowerConsumptionHysteresis)
    => LET solar == adjustedVictronChargePower(getDirectSolarPower(config, tk.ppv),
                                               tk.efficency)
           cap == IF tk.consumeSolarPowerOnly
                  THEN Min(config.PowerLimiter_UpperPowerLimit, solar)
                  ELSE config.PowerLimiter_UpperPowerLimit
           share == IF config.PowerLimiter_IsInverterBehindPowerMeter
                    THEN lastRequestedPowerLimit ELSE 0
       IN  tk.returned =
              Min(round(tk.total) + share - config.PowerLimiter_TargetPowerConsumption,
                  cap)

\* with the inverter behind the meter, a load of 30.5 W and a last limit of
\* 75 W gave 86 W; the load alone would have been reused
C29_Witness ==
    /\ tk.path = "calcPowerLimit"
    /\ config.PowerLimiter_IsInverterBehindPowerMeter
    /\ tk.meterAge = 30000
    /\ tk.total = 305
    /\ lastRequestedPowerLimit = 75
    /\ ~tk.consumeSolarPowerOnly
    /\ tk.returned = 86

\* C30: isStopThresholdReached is true iff the battery interface is enabled, the
\* SoC stop threshold is above 0, the SoC is less than 60 s old and at or below
\* that threshold, or the voltage stop threshold is above 0 and the
\* load-corrected voltage is at or below it; isStartThresholdReached likewise
\* with the start thresholds and at or above.  A reported voltage of 0 or less
\* gives a corrected voltage of 0.
C30_Thresholds ==
    tk.path = "thresholds" =>
        LET fresh == config.Battery_Enabled /\ tk.bat.age < 60000
            corrected == IF tk.inv.udc <= 0 THEN 0
                         ELSE tk.inv.udc
                              + tk.inv.pac * config.PowerLimiter_VoltageLoadCorrectionFactor
        IN  /\ tk.correctedDcVoltage = corrected
            /\ tk.stop <=>
                  \/ /\ fresh
                     /\ config.PowerLimiter_BatterySocStopThreshold > 0
                     /\ tk.bat.soc <= config.PowerLimiter_BatterySocStopThreshold
                  \/ /\ config.PowerLimiter_VoltageStopThreshold > 0
                     /\ corrected <= config.PowerLimiter_VoltageStopThreshold
            /\ tk.start <=>
                  \/ /\ fresh
                     /\ config.PowerLimiter_BatterySocStartThreshold > 0
                     /\ tk.bat.soc >= config.PowerLimiter_BatterySocStartThreshold
                  \/ /\ config.PowerLimiter_VoltageStartThreshold > 0
                     /\ corrected >= config.PowerLimiter_VoltageStartThreshold

\* a state of charge of 19 %, 60 s old, was ignored, and 24.001 V did not reach
\* the stop threshold of 24 V
C30_Witness ==
    /\ tk.path = "thresholds"
    /\ config = BaseConfig
    /\ tk.bat = [soc |-> 19, age |-> 60000]
    /\ tk.inv = [udc |-> 24000, pac |-> 1]
    /\ ~tk.stop
    /\ ~tk.start

-----------------------------------------------------------------------------
(* Properties of the open circuit voltage and of the resistances accepted *)

\* a call of updateBatteryValues that passed its guard
Accepted == Called /\ guard.useBatteryGuard /\ Fed.voltage >= 0

\* C31: an accepted call of updateBatteryValues in which getInternalResistance
\* returns a resistance R adds exactly one sample to the open circuit voltage
\* average, V - I * R; an accepted call in which it returns none adds no
\* sample; so that average is empty for as long as no resistance is available.
C31_OneOpenCircuitVoltage ==
    /\ [][ Accepted =>
             LET oResistor == getInternalResistance(guard')
                 before == guard.openCircuitVoltageAVG
                 after == guard'.openCircuitVoltageAVG
             IN  IF oResistor # << >>
                 THEN /\ after.count = before.count + 1
                      /\ after.last = openCircuitVoltage(Fed.voltage, Fed.current,
                                                         oResistor[1])
                      /\ after = addNumber(before, after.last, 5)
                 ELSE after = before ]_vars
    /\ [](getInternalResistance(guard) = << >> =>
             guard.openCircuitVoltageAVG = WeightedAVG)

\* two calls added one open circuit voltage each, the second one 24.0625 V -
\* 8 A * R, after calls that added none for want of a resistance
C31_Witness ==
    /\ guard.openCircuitVoltageAVG.count = 2
    /\ guard.resistanceFromCalcAVG.count = 5
    /\ Len(gk.fed) >= 5
    /\ guard.openCircuitVoltageAVG.last =
          openCircuitVoltage(guard.battVoltage, guard.battCurrent,
                             guard.resistanceFromCalcAVG.average)
    /\ guard.openCircuitVoltageAVG.last < guard.battVoltage

\* C33, as claimed: no resistance that the average takes is infinite, the
\* quotient of a voltage difference and a current difference of zero.
C33_NoInfiniteResistance ==
    /\ ~isinf(guard.resistanceFromCalcAVG.last)
    /\ ~isinf(guard.resistanceFromCalcAVG.average)

\* C38: the count of accepted resistances never decreases; once
\* getInternalResistance returns a value it returns one after every later call
\* of updateBatteryValues, and every accepted call then adds to the open circuit
\* voltage average.
C38_ResistanceStaysAvailable ==
    [][ /\ guard'.resistanceFromCalcAVG.count >= guard.resistanceFromCalcAVG.count
        /\ guard.resistanceFromCalcAVG.count > 4 =>
              /\ guard'.resistanceFromCalcAVG.count > 4
              /\ getInternalResistance(guard') # << >>
              /\ Accepted =>
                    guard'.openCircuitVoltageAVG.count
                       = guard.openCircuitVoltageAVG.count + 1 ]_vars

\* a sixth resistance was accepted, and every call so far, four at least,
\* added an open circuit voltage
C38_Witness ==
    /\ guard.resistanceFromCalcAVG.count = 6
    /\ gk.result
    /\ guard.openCircuitVoltageAVG.count = Len(gk.fed)
    /\ Len(gk.fed) >= 4

-----------------------------------------------------------------------------
(* Properties of the ticks of the limiter *)

\* a tick that was executed with the limiter disabled and found the inverter
\* reachable and producing
DisabledAndProducing ==
    /\ ticks' # ticks
    /\ ~config.PowerLimiter_Enabled
    /\ tk'.inverter = "reachable"
    /\ producing

Members ==
    <<plState, batteryDischargeEnabled, lastRequestedPowerLimit,
      mpptDirectFeedToGridPercent, lastCommandSent, inverterLimit>>

\* C36: loop() sends no command, changes no member and leaves _lastLoop alone
\* unless the power meter is enabled, the radio is idle and PowerLimiter_Interval
\* seconds have passed since _lastCommandSent and since _lastLoop; two executed
\* ticks are at least one interval apart.
C36_TickGating ==
    [][ /\ (ticks' = ticks) =>
              /\ UNCHANGED Members
              /\ lastLoop' = lastLoop
              /\ (tk' # tk => tk'.path = "skipped" /\ tk'.cmds = << >>)
        /\ (ticks' # ticks) =>
              /\ config.PowerMeter_Enabled
              /\ tk'.idle = << TRUE >>
              /\ lastLoop' - lastCommandSent >= config.PowerLimiter_Interval * 1000
              /\ lastLoop' - lastLoop >= config.PowerLimiter_Interval * 1000 ]_vars

\* a second tick was executed, one interval after a tick that sent a start
\* command
C36_Witness ==
    /\ ticks = 2
    /\ config.PowerMeter_Enabled
    /\ tk.idle = << TRUE >>
    /\ lastCommandSent > 0
    /\ lastLoop - lastCommandSent = config.PowerLimiter_Interval * 1000

-----------------------------------------------------------------------------
(* Properties of the power meter's timestamp *)

\* C34, as claimed: _lastPowerMeterUpdate moves only in a call that wrote
\* _powerMeterTotalPower from a new measurement.
C34_StampOnlyWithMeasurement ==
    [][ meter'.lastPowerMeterUpdate # meter.lastPowerMeterUpdate =>
          mk'.refreshed ]_vars

\* C35, as claimed: calcPowerLimit returns LowerPowerLimit whenever it finds
\* _lastPowerMeterUpdate at 0, no reading having been received since init().
C35_NoReadingIsStale ==
    (tk.path = "calcPowerLimit" /\ tk.lastPowerMeterUpdate = 0) =>
        tk.returned = config.PowerLimiter_LowerPowerLimit


=============================================================================
